---------------------------- MODULE Spec2Model ----------------------------
(***************************************************************************)
(* A model of the gas estimation engine of branched-services/go-gas:       *)
(*   - History (pkg/estimator/history.go), the ring of recent blocks       *)
(*   - LocalTxPool, the ring of recent pending transactions                *)
(*   - Provider, the atomic publication slot of the current estimate       *)
(*   - HybridStrategy, the calculation of an estimate from history,        *)
(*     mempool and the previous estimate                                   *)
(*                                                                         *)
(* Go pointers are modelled as addresses into object stores: every         *)
(* *uint256.Int is an index into `heap`, every *BlockData an index into    *)
(* `blockObjs`, every *TxData into `txObjs`, every *GasEstimate into       *)
(* `estObjs`.  Address 0 is the nil pointer.  The uint256 operations are   *)
(* translated with their receiver semantics (z.Add(x, y) writes the cell   *)
(* z), so aliasing and in-place mutation are visible in the model.         *)
(***************************************************************************)
EXTENDS Integers, Sequences, FiniteSets, TLC

VARIABLES
    heap,       \* store of uint256.Int cells: heap[a] is the value at address a
    blockObjs,  \* store of block objects (eth.Block / BlockData)
    txObjs,     \* store of TxData objects
    estObjs,    \* store of GasEstimate objects
    history,    \* History: [blocks, size, head, count]
    localPool,  \* LocalTxPool: [txs, size, pos, count]
    pushed,     \* history of the calls History.Push(b): the sequence of b
    added,      \* history of the calls LocalTxPool.Add(tx): the sequence of tx
    current,    \* Provider.current (atomic.Pointer[GasEstimate])
    updates,    \* Provider.updates (atomic.Uint64)
    writer,     \* the task calling Provider.Update: its position and argument
    readers,    \* the tasks calling Current / Ready / UpdateCount
    log,        \* history of the calls Provider.Update(est)
    stored,     \* history of the executions of p.current.Store(est)
    strategy,   \* the HybridStrategy in use
    call,       \* the last call of HybridStrategy.Calculate: input and return
    rootCtx,    \* the context given to Estimator.Run: "live" or "cancelled"
    run,        \* the task executing Estimator.Run: its position, locals, return
    chans,      \* the channels of the subscriptions: blockCh, txHashCh, rawCh
    fwd,        \* the forwarding tasks of the two subscriptions
    proc,       \* the task executing processPendingTxs: its position and batch
    handlers,   \* the tasks executing handleNewBlock: the header of each
    trace,      \* history of the calls made by Run and its tasks
    ws,         \* the WSSubscriber: conn, closed, done, its two locks, its tasks
    recalc      \* the calls of recalculate in progress: task, position, input

vars == <<heap, blockObjs, txObjs, estObjs, history, localPool, pushed, added,
          current, updates, writer, readers, log, stored, strategy, call,
          rootCtx, run, chans, fwd, proc, handlers, trace, ws, recalc>>

storeVars == <<heap, blockObjs, txObjs, estObjs>>
ringVars  == <<history, localPool, pushed, added>>
provVars  == <<current, updates, writer, readers, log, stored>>
calcVars  == <<strategy, call>>
runVars   == <<rootCtx, run, chans, fwd, proc, handlers, trace, ws, recalc>>

-----------------------------------------------------------------------------
(* Bounds of the model *)

\* uint256 is modelled with UintBits bits: all fee arithmetic is modulo 2^UintBits
UintBits == 16
\* largest capacity of a ring (History, LocalTxPool) tried
MaxCap == 3
\* most calls of Push, and of Add, in one run
MaxPush == 5
\* most calls of Provider.Update by the writer in one run
MaxUpdates == 2

\* most blocks delivered to the estimator in one run
MaxBlocks == 2
\* most pending transactions fetched by the estimator in one run
MaxPending == 1
\* most calls of HybridStrategy.Calculate in one run
MaxCalls == 2

\* fees are counted in gwei: 1e9 wei is one unit
Gwei == 1

Nil == 0
Modulus == 2 ^ UintBits
MaxUint == Modulus - 1

Min(a, b) == IF a < b THEN a ELSE b
Max(a, b) == IF a > b THEN a ELSE b

\* F applied to the value of v, which is computed once
With(v, F(_)) == CHOOSE r \in { F(x) : x \in {v} } : TRUE

\* Estimator.Run has not been called: no task, no channel, no call
\* NewWSSubscriber: no connection, no task, both locks free
NewWSSubscriber ==
    [conn |-> "nil", closed |-> FALSE, done |-> FALSE, mu |-> "free",
     writeMu |-> "free", pings |-> 0,
     tasks |-> [t \in {"Close", "heads", "pending", "readLoop"} |-> "none"]]

RunIdle ==
    /\ ws = NewWSSubscriber
    /\ recalc = <<>>
    /\ rootCtx = "live"
    /\ run = [pc |-> "idle"]
    /\ chans = <<>>
    /\ fwd = <<>>
    /\ proc = <<>>
    /\ handlers = <<>>
    /\ trace = <<>>

-----------------------------------------------------------------------------
(* uint256.Int cells *)

\* new(uint256.Int) / uint256.NewInt(v): a fresh cell holding v
NewInt(h, v) == [h |-> Append(h, v % Modulus), p |-> Len(h) + 1]

\* z.Set(x), z.SetUint64(v), and the arithmetic with receiver z
SetCell(h, z, v) == [h |-> [h EXCEPT ![z] = v % Modulus], p |-> z]

-----------------------------------------------------------------------------
(* History: pkg/estimator/history.go *)

NewHistory(size) ==
    LET s == IF size < 1 THEN 20 ELSE size
    IN  [blocks |-> [i \in 0..(s - 1) |-> Nil], size |-> s, head |-> 0, count |-> 0]

HistoryPush(h, block) ==
    [h EXCEPT !.blocks = [h.blocks EXCEPT ![h.head] = block],
              !.head   = (h.head + 1) % h.size,
              !.count  = IF h.count < h.size THEN h.count + 1 ELSE h.count]

HistoryLatest(h) ==
    IF h.count = 0 THEN Nil ELSE h.blocks[(h.head - 1 + h.size) % h.size]

HistorySnapshotOffByOne(h) ==
    [i \in 1..h.count |-> h.blocks[(h.head - (i - 1) + h.size) % h.size]]

HistorySnapshot(h) ==
    [i \in 1..h.count |-> h.blocks[(h.head - 1 - (i - 1) + h.size) % h.size]]

HistoryLen(h) == h.count

-----------------------------------------------------------------------------
(* LocalTxPool *)

NewLocalTxPool(size) ==
    [txs |-> [i \in 0..(size - 1) |-> Nil], size |-> size, pos |-> 0, count |-> 0]

\* eth.Transaction.IsEIP1559
IsEIP1559(tx) == tx.Type = 2

\* the TxData record built by LocalTxPool.Add from an eth.Transaction
TxDataOf(tx) ==
    [IsEIP1559            |-> IsEIP1559(tx),
     MaxPriorityFeePerGas |-> IF IsEIP1559(tx) /\ tx.MaxPriorityFeePerGas # Nil
                              THEN tx.MaxPriorityFeePerGas ELSE Nil,
     MaxFeePerGas         |-> IF IsEIP1559(tx) /\ tx.MaxFeePerGas # Nil
                              THEN tx.MaxFeePerGas ELSE Nil,
     GasPrice             |-> IF ~IsEIP1559(tx) /\ tx.GasPrice # Nil
                              THEN tx.GasPrice ELSE Nil]

\* Add: p.txs[p.pos] = data is out of range when the pool was made with size 0,
\* and the task panics
LocalTxPoolAddPanics(p) == p.pos >= p.size

\* Add: the record is allocated, then written at pos under the lock
LocalTxPoolAdd(p, objs, tx) ==
    LET data == Len(objs) + 1
    IN  [objs |-> Append(objs, TxDataOf(tx)),
         pool |-> [p EXCEPT !.txs   = [p.txs EXCEPT ![p.pos] = data],
                            !.pos   = (p.pos + 1) % p.size,
                            !.count = IF p.count < p.size THEN p.count + 1 ELSE p.count]]

RECURSIVE SkipNil(_)
SkipNil(s) ==
    IF s = <<>> THEN <<>>
    ELSE IF Head(s) = Nil THEN SkipNil(Tail(s))
    ELSE <<Head(s)>> \o SkipNil(Tail(s))

LocalTxPoolSnapshotUnrotated(p) ==
    SkipNil([i \in 1..p.count |-> p.txs[(i - 1) % p.size]])

LocalTxPoolSnapshot(p) ==
    SkipNil([i \in 1..p.count |-> p.txs[(p.pos - p.count + (i - 1) + p.size) % p.size]])


-----------------------------------------------------------------------------
(* Objects handed to the engine by its callers and by the node *)

\* a block as TestHistory builds it: &eth.Block{Number: n}
MakeBlock(n) ==
    [Number |-> n, BaseFee |-> Nil, GasUsed |-> 0, GasLimit |-> 0, PriorityFees |-> <<>>]

\* An eth.Transaction whose fee fields are fresh cells.  `shape` gives the type
\* marker and the value of each fee field, -1 for a field that is nil.
NewTransaction(h, shape) ==
    With(IF shape.gp  < 0 THEN [h |-> h, p |-> Nil] ELSE NewInt(h, shape.gp), LAMBDA a :
    With(IF shape.mf  < 0 THEN [h |-> a.h, p |-> Nil] ELSE NewInt(a.h, shape.mf), LAMBDA b :
    With(IF shape.mpf < 0 THEN [h |-> b.h, p |-> Nil] ELSE NewInt(b.h, shape.mpf), LAMBDA c :
        [h  |-> c.h,
         tx |-> [Type |-> shape.type, GasPrice |-> a.p,
                 MaxFeePerGas |-> b.p, MaxPriorityFeePerGas |-> c.p]])))

TxShape(type, gp, mf, mpf) == [type |-> type, gp |-> gp, mf |-> mf, mpf |-> mpf]

\* makeTx(fee) of TestLocalTxPool, a legacy transaction, and a transaction whose
\* fields do not match its type marker
RingTxs ==
    { TxShape(2, -1, 2 * f, f) : f \in 1..2 }
        \cup { TxShape(0, 3, -1, -1), TxShape(2, 3, -1, -1) }

-----------------------------------------------------------------------------
(* The initial state: NewHistory, NewLocalTxPool, NewProvider, and no object *)

StoresInit ==
    /\ heap = <<>>
    /\ blockObjs = <<>>
    /\ txObjs = <<>>
    /\ estObjs = <<>>

RingInit(hcap, pcap) ==
    /\ history = NewHistory(hcap)
    /\ localPool = NewLocalTxPool(pcap)
    /\ pushed = <<>>
    /\ added = <<>>

-----------------------------------------------------------------------------
(* SpecRing: any sequence of Push and Add calls on rings of any capacity *)

RingPush ==
    /\ run.pc # "panic"
    /\ Len(pushed) < MaxPush
    /\ LET b == Len(blockObjs) + 1
       IN  /\ blockObjs' = Append(blockObjs, MakeBlock(Len(pushed) + 1))
           /\ history' = HistoryPush(history, b)
           /\ pushed' = Append(pushed, b)
    /\ UNCHANGED <<heap, txObjs, estObjs, localPool, added, provVars, calcVars, runVars>>

RingAdd ==
    /\ run.pc # "panic"
    /\ Len(added) < MaxPush
    /\ \E shape \in RingTxs :
       \E t \in {NewTransaction(heap, shape)} :
          IF LocalTxPoolAddPanics(localPool)
          THEN /\ run' = [run EXCEPT !.pc = "panic"]
               /\ UNCHANGED <<heap, txObjs, localPool, added>>
          ELSE \E r \in {LocalTxPoolAdd(localPool, txObjs, t.tx)} :
                  /\ heap' = t.h
                  /\ txObjs' = r.objs
                  /\ localPool' = r.pool
                  /\ added' = Append(added, t.tx)
                  /\ run' = run
    /\ UNCHANGED <<blockObjs, estObjs, history, pushed, provVars, calcVars,
                   rootCtx, ws, recalc, chans, fwd, proc, handlers, trace>>

-----------------------------------------------------------------------------
(* GasEstimate objects *)

PriorityEstimate(prio, maxFee, conf) ==
    [MaxPriorityFeePerGas |-> prio, MaxFeePerGas |-> maxFee, Confidence |-> conf]

\* The estimate of the writer's k-th update, every field of which carries k
\* (TestProvider builds &GasEstimate{BlockNumber: k}); all its cells are fresh.
MakeEstimate(h, k) ==
    LET a == Len(h)
    IN  [h   |-> h \o [i \in 1..9 |-> k % Modulus],
         est |-> [ChainID |-> k, BlockNumber |-> k, BaseFee |-> a + 1,
                  Urgent   |-> PriorityEstimate(a + 2, a + 3, 99),
                  Fast     |-> PriorityEstimate(a + 4, a + 5, 90),
                  Standard |-> PriorityEstimate(a + 6, a + 7, 50),
                  Slow     |-> PriorityEstimate(a + 8, a + 9, 25)]]

\* the fields of a GasEstimate in the order in which handleEstimate reads them
NFields == 7

TierValue(h, t) == <<h[t.MaxPriorityFeePerGas], h[t.MaxFeePerGas], t.Confidence>>

\* what a reader that holds the pointer est reads from its i-th field
ReadField(objs, h, est, i) ==
    LET e == objs[est]
    IN  CASE i = 1 -> e.ChainID
          [] i = 2 -> e.BlockNumber
          [] i = 3 -> h[e.BaseFee]
          [] i = 4 -> TierValue(h, e.Urgent)
          [] i = 5 -> TierValue(h, e.Fast)
          [] i = 6 -> TierValue(h, e.Standard)
          [] i = 7 -> TierValue(h, e.Slow)

\* the value of every field of the estimate at est
EstimateValue(objs, h, est) == [i \in 1..NFields |-> ReadField(objs, h, est, i)]

-----------------------------------------------------------------------------
(* Provider *)

\* p.current.Store(est): the pointer is replaced, the objects are left alone
ProviderStoreFirstWins(objs, cur, est) ==
    [objs |-> objs, current |-> IF cur = Nil THEN est ELSE cur]

ProviderStoreInPlace(objs, cur, est) ==
    IF cur = Nil THEN [objs |-> objs, current |-> est]
    ELSE [objs |-> [objs EXCEPT ![cur] = objs[est]], current |-> cur]

ProviderStore(objs, cur, est) == [objs |-> objs, current |-> est]

\* the statements of Update in program order, each one atomic operation
UpdateStepsAddFirst == <<"add", "store">>

UpdateSteps == <<"store", "add">>

\* Current(ctx): ctx.Err() first, then one atomic load
ProviderCurrentNoCtx(cur, ctx) ==
    IF cur = Nil THEN [est |-> Nil, err |-> "ErrNotReady"]
    ELSE [est |-> cur, err |-> "nil"]

ProviderCurrent(cur, ctx) ==
    IF ctx # "live" THEN [est |-> Nil, err |-> "canceled"]
    ELSE IF cur = Nil THEN [est |-> Nil, err |-> "ErrNotReady"]
    ELSE [est |-> cur, err |-> "nil"]

ProviderReadyByCount(cur, upd) == upd > 0

ProviderReady(cur, upd) == cur # Nil

ProviderUpdateCount(upd) == upd

NewProvider ==
    /\ current = Nil
    /\ updates = 0

\* the tasks reading the Provider concurrently with the writer
Readers == {1, 2}

ReaderInit ==
    [pc |-> 0, est |-> Nil, prevEst |-> Nil, err |-> "none", ctx |-> "none",
     ready |-> FALSE, view |-> <<>>, count |-> 0, prevCount |-> 0, countAfter |-> FALSE]

ProvInit ==
    /\ NewProvider
    /\ writer = [step |-> 0, est |-> Nil]
    /\ readers = [r \in Readers |-> ReaderInit]
    /\ log = <<>>
    /\ stored = <<>>

\* the writer calls Update(est) with a freshly built estimate
WriterCall ==
    /\ writer.step = 0
    /\ Len(log) < MaxUpdates
    /\ \E m \in {MakeEstimate(heap, Len(log) + 1)} :
       LET e == Len(estObjs) + 1
       IN  /\ heap' = m.h
           /\ estObjs' = Append(estObjs, m.est)
           /\ writer' = [step |-> 1, est |-> e]
           /\ log' = Append(log, [est |-> e, val |-> EstimateValue(estObjs', heap', e)])
    /\ UNCHANGED <<blockObjs, txObjs, ringVars, current, updates, readers, stored, calcVars, runVars>>

WriterNext == IF writer.step = Len(UpdateSteps) THEN 0 ELSE writer.step + 1

UpdateStore ==
    /\ writer.step > 0
    /\ UpdateSteps[writer.step] = "store"
    /\ LET r == ProviderStore(estObjs, current, writer.est)
       IN  /\ estObjs' = r.objs
           /\ current' = r.current
    /\ stored' = Append(stored, writer.est)
    /\ writer' = [writer EXCEPT !.step = WriterNext]
    /\ UNCHANGED <<heap, blockObjs, txObjs, ringVars, updates, readers, log, calcVars, runVars>>

UpdateAdd ==
    /\ writer.step > 0
    /\ UpdateSteps[writer.step] = "add"
    /\ updates' = updates + 1
    /\ writer' = [writer EXCEPT !.step = WriterNext]
    /\ UNCHANGED <<storeVars, ringVars, current, readers, log, stored, calcVars, runVars>>

\* a reader calls Current(ctx); with a bundle in hand it goes on to read the fields
ReaderCurrent(r) ==
    /\ readers[r].pc = 0
    /\ \E ctx \in {"live", "canceled"} :
          LET res == ProviderCurrent(current, ctx)
              me  == readers[r]
          IN  readers' = [readers EXCEPT ![r] =
                  [me EXCEPT !.ctx = ctx, !.err = res.err,
                             !.ready = ProviderReady(current, updates),
                             !.est = IF res.err = "nil" THEN res.est ELSE me.est,
                             !.prevEst = IF res.err = "nil" THEN me.est ELSE me.prevEst,
                             !.view = IF res.err = "nil" THEN <<>> ELSE me.view,
                             !.countAfter = IF res.err = "nil" THEN FALSE ELSE me.countAfter,
                             !.pc = IF res.err = "nil" THEN 1 ELSE 0]]
    /\ UNCHANGED <<storeVars, ringVars, current, updates, writer, log, stored, calcVars, runVars>>

ReaderReadField(r) ==
    /\ readers[r].pc > 0
    /\ LET me == readers[r]
       IN  readers' = [readers EXCEPT ![r] =
               [me EXCEPT !.view = Append(me.view, ReadField(estObjs, heap, me.est, me.pc)),
                          !.pc = IF me.pc = NFields THEN 0 ELSE me.pc + 1]]
    /\ UNCHANGED <<storeVars, ringVars, current, updates, writer, log, stored, calcVars, runVars>>

ReaderUpdateCount(r) ==
    /\ readers[r].pc = 0
    /\ LET me == readers[r]
       IN  readers' = [readers EXCEPT ![r] =
               [me EXCEPT !.prevCount = me.count,
                          !.count = ProviderUpdateCount(updates),
                          !.countAfter = TRUE]]
    /\ UNCHANGED <<storeVars, ringVars, current, updates, writer, log, stored, calcVars, runVars>>

-----------------------------------------------------------------------------
(* uint256.Int arithmetic, modulo 2^UintBits *)

\* new(uint256.Int).Set(x): a fresh cell with the value of x
SetFromAlias(h, x) == [h |-> h, p |-> x]

SetFrom(h, x) == NewInt(h, h[x])

MulMod(a, b) == (a * b) % Modulus
AddMod(a, b) == (a + b) % Modulus
SubMod(a, b) == (a - b) % Modulus
\* Div sets z to x/y, and to 0 when y is 0
DivZ(a, b) == IF b = 0 THEN 0 ELSE a \div b

\* the value uint64(w * 100) of the float64 w = w100 / 100
Uint64OfTimes100(w100) ==
    CASE w100 = 29 -> 28
      [] w100 = 57 -> 56
      [] w100 = 58 -> 57
      [] OTHER -> w100

\* sequences of cell addresses in ascending order of their values (slices.SortFunc)
RECURSIVE InsertByValue(_, _, _)
InsertByValue(h, s, x) ==
    IF s = <<>> THEN <<x>>
    ELSE IF h[x] < h[Head(s)] THEN <<x>> \o s
    ELSE <<Head(s)>> \o InsertByValue(h, Tail(s), x)

RECURSIVE SortByValue(_, _)
SortByValue(h, s) ==
    IF s = <<>> THEN <<>>
    ELSE With(SortByValue(h, Tail(s)), LAMBDA rest : InsertByValue(h, rest, Head(s)))

-----------------------------------------------------------------------------
(* Effective priority fee *)

\* eth.Transaction.EffectivePriorityFee (pkg/eth/types.go), used at block ingest
TransactionEffectivePriorityFee(h, t, baseFee) ==
    IF baseFee = Nil THEN NewInt(h, 0)
    ELSE IF t.Type = 2 /\ t.MaxFeePerGas # Nil /\ t.MaxPriorityFeePerGas # Nil
    THEN LET maxMinusBase == SubMod(h[t.MaxFeePerGas], h[baseFee])
         IN  IF h[t.MaxPriorityFeePerGas] < maxMinusBase
             THEN SetFrom(h, t.MaxPriorityFeePerGas)
             ELSE NewInt(h, maxMinusBase)
    ELSE IF t.GasPrice = Nil THEN NewInt(h, 0)
    ELSE IF h[t.GasPrice] < h[baseFee] THEN NewInt(h, 0)
    ELSE NewInt(h, SubMod(h[t.GasPrice], h[baseFee]))

\* TxData.EffectivePriorityFee, used on the records of the pool
TxDataEffectivePriorityFee(h, t, baseFee) ==
    IF baseFee = Nil \/ h[baseFee] = 0
    THEN IF t.IsEIP1559 /\ t.MaxPriorityFeePerGas # Nil THEN SetFrom(h, t.MaxPriorityFeePerGas)
         ELSE IF t.GasPrice # Nil THEN SetFrom(h, t.GasPrice)
         ELSE NewInt(h, 0)
    ELSE IF t.IsEIP1559 /\ t.MaxFeePerGas # Nil /\ t.MaxPriorityFeePerGas # Nil
    THEN IF h[t.MaxFeePerGas] < h[baseFee] THEN NewInt(h, 0)
         ELSE LET maxMinusBase == SubMod(h[t.MaxFeePerGas], h[baseFee])
              IN  IF h[t.MaxPriorityFeePerGas] < maxMinusBase
                  THEN SetFrom(h, t.MaxPriorityFeePerGas)
                  ELSE NewInt(h, maxMinusBase)
    ELSE IF t.GasPrice # Nil
    THEN IF h[t.GasPrice] < h[baseFee] THEN NewInt(h, 0)
         ELSE NewInt(h, SubMod(h[t.GasPrice], h[baseFee]))
    ELSE NewInt(h, 0)

-----------------------------------------------------------------------------
(* HybridStrategy *)

\* predictBaseFee: the copy of the block's base fee is updated in place
PredictBaseFee(h, block) ==
    IF block.BaseFee = Nil THEN NewInt(h, Gwei)
    ELSE With(SetFrom(h, block.BaseFee), LAMBDA baseFee :
         LET B         == baseFee.h[baseFee.p]
             gasTarget == block.GasLimit \div 2
         IN  IF block.GasUsed = gasTarget THEN baseFee
             ELSE IF block.GasUsed > gasTarget
             THEN LET delta == DivZ(DivZ(MulMod(B, block.GasUsed - gasTarget), gasTarget), 8)
                  IN  SetCell(baseFee.h, baseFee.p, AddMod(B, delta))
             ELSE LET delta == DivZ(DivZ(MulMod(B, gasTarget - block.GasUsed), gasTarget), 8)
                  IN  IF B < delta THEN SetCell(baseFee.h, baseFee.p, 0)
                      ELSE SetCell(baseFee.h, baseFee.p, SubMod(B, delta)))

\* percentile: idx = int(float64(len(values)-1) * p), p = p100 / 100
PercentileIndex(n, p100) == ((n - 1) * p100) \div 100

Percentile(h, values, p100) ==
    IF Len(values) = 0 THEN [h |-> h, p |-> Nil]
    ELSE SetFrom(h, values[PercentileIndex(Len(values), p100) + 1])

\* blend: (a * wA + b * wB) / 100 in a fresh cell, wA = uint64(weightA * 100)
Blend(h, a, b, w100) ==
    LET wA == Uint64OfTimes100(w100)
        wB == 100 - wA
        aWeighted == MulMod(h[a], wA)
        bWeighted == MulMod(h[b], wB)
    IN  NewInt(h, DivZ(AddMod(aWeighted, bWeighted), 100))

DefaultPriorityFee(h, s, p100) ==
    LET min    == h[s.MinPriorityFee]
        max    == h[s.MaxPriorityFee]
        diff   == SubMod(max, min)
        scaled == DivZ(MulMod(diff, Uint64OfTimes100(p100)), 100)
    IN  NewInt(h, AddMod(min, scaled))

Clamp(h, s, fee) ==
    IF h[fee] < h[s.MinPriorityFee] THEN SetFrom(h, s.MinPriorityFee)
    ELSE IF h[fee] > h[s.MaxPriorityFee] THEN SetFrom(h, s.MaxPriorityFee)
    ELSE [h |-> h, p |-> fee]

\* computeEstimate up to the clamp: the priority fee of a tier
TierFee(h, s, historical, mempool, p100) ==
    With(Percentile(h, historical, p100), LAMBDA histP :
    With(Percentile(histP.h, mempool, p100), LAMBDA mempP :
        IF histP.p # Nil /\ mempP.p # Nil
        THEN Blend(mempP.h, histP.p, mempP.p, s.HistoricalWeight)
        ELSE IF mempP.p # Nil THEN mempP
        ELSE IF histP.p # Nil THEN [h |-> mempP.h, p |-> histP.p]
        ELSE DefaultPriorityFee(mempP.h, s, p100)))

ComputeEstimate(h, s, baseFee, historical, mempool, p100) ==
    With(TierFee(h, s, historical, mempool, p100), LAMBDA fee :
    With(Clamp(fee.h, s, fee.p), LAMBDA priorityFee :
    With(NewInt(priorityFee.h,
                AddMod(MulMod(priorityFee.h[baseFee], 2), priorityFee.h[priorityFee.p])),
         LAMBDA maxFee :
            [h |-> maxFee.h, e |-> PriorityEstimate(priorityFee.p, maxFee.p, p100)])))

SmoothEstimate(h, cur, previous, factor) ==
    With(Blend(h, previous.MaxPriorityFeePerGas, cur.MaxPriorityFeePerGas, factor),
         LAMBDA smoothedPriority :
    With(Blend(smoothedPriority.h, previous.MaxFeePerGas, cur.MaxFeePerGas, factor),
         LAMBDA smoothedMax :
            [h |-> smoothedMax.h,
             e |-> PriorityEstimate(smoothedPriority.p, smoothedMax.p, cur.Confidence)]))
\* a smoothing that hands the blended slow tier out as urgent and the blended
\* urgent tier as slow
SmoothSwapsTiers(h, s, cur, previous) ==
    With(SmoothEstimate(h, cur.Urgent, previous.Urgent, s.SmoothingFactor), LAMBDA u :
    With(SmoothEstimate(u.h, cur.Fast, previous.Fast, s.SmoothingFactor), LAMBDA f :
    With(SmoothEstimate(f.h, cur.Standard, previous.Standard, s.SmoothingFactor), LAMBDA d :
    With(SmoothEstimate(d.h, cur.Slow, previous.Slow, s.SmoothingFactor), LAMBDA l :
        [h   |-> l.h,
         est |-> [ChainID |-> cur.ChainID, BlockNumber |-> cur.BlockNumber,
                  BaseFee |-> cur.BaseFee,
                  Urgent |-> l.e, Fast |-> f.e, Standard |-> d.e, Slow |-> u.e]]))))

Smooth(h, s, cur, previous) ==
    With(SmoothEstimate(h, cur.Urgent, previous.Urgent, s.SmoothingFactor), LAMBDA u :
    With(SmoothEstimate(u.h, cur.Fast, previous.Fast, s.SmoothingFactor), LAMBDA f :
    With(SmoothEstimate(f.h, cur.Standard, previous.Standard, s.SmoothingFactor), LAMBDA d :
    With(SmoothEstimate(d.h, cur.Slow, previous.Slow, s.SmoothingFactor), LAMBDA l :
        [h   |-> l.h,
         est |-> [ChainID |-> cur.ChainID, BlockNumber |-> cur.BlockNumber,
                  BaseFee |-> cur.BaseFee,
                  Urgent |-> u.e, Fast |-> f.e, Standard |-> d.e, Slow |-> l.e]]))))

\* the priority fees of the recent blocks, in block order
RECURSIVE CollectHistorical(_, _)
CollectHistorical(bobjs, blocks) ==
    IF blocks = <<>> THEN <<>>
    ELSE bobjs[Head(blocks)].PriorityFees \o CollectHistorical(bobjs, Tail(blocks))

\* the non-zero effective priority fees of the pending transactions
RECURSIVE CollectMempool(_, _, _, _)
CollectMempool(h, tobjs, txs, baseFee) ==
    IF txs = <<>> THEN [h |-> h, fees |-> <<>>]
    ELSE With(TxDataEffectivePriorityFee(h, tobjs[Head(txs)], baseFee), LAMBDA fee :
         With(CollectMempool(fee.h, tobjs, Tail(txs), baseFee), LAMBDA rest :
            [h    |-> rest.h,
             fees |-> IF fee.h[fee.p] # 0 THEN <<fee.p>> \o rest.fees ELSE rest.fees]))

\* the four tiers, and the estimate smoothed when there is a previous one
CalculateTiers(eobjs, s, input, number, predicted, h, historicalFees, mempoolFees) ==
    With(ComputeEstimate(h, s, predicted, historicalFees, mempoolFees, 99), LAMBDA u :
    With(ComputeEstimate(u.h, s, predicted, historicalFees, mempoolFees, 90), LAMBDA f :
    With(ComputeEstimate(f.h, s, predicted, historicalFees, mempoolFees, 50), LAMBDA d :
    With(ComputeEstimate(d.h, s, predicted, historicalFees, mempoolFees, 25), LAMBDA l :
    With([ChainID |-> input.ChainID, BlockNumber |-> number, BaseFee |-> predicted,
          Urgent |-> u.e, Fast |-> f.e, Standard |-> d.e, Slow |-> l.e], LAMBDA estimate :
        IF input.PreviousEstimate # Nil /\ s.SmoothingFactor > 0
        THEN With(Smooth(l.h, s, estimate, eobjs[input.PreviousEstimate]), LAMBDA sm :
                [h |-> sm.h, eobjs |-> eobjs \o <<estimate, sm.est>>,
                 est |-> Len(eobjs) + 2, err |-> "nil"])
        ELSE [h |-> l.h, eobjs |-> Append(eobjs, estimate),
              est |-> Len(eobjs) + 1, err |-> "nil"])))))

\* the guard of Calculate: input.CurrentBlock == nil
CurrentBlockOrHistoryAbsent(input) ==
    input.CurrentBlock = Nil \/ input.RecentBlocks = <<>>

CurrentBlockAbsent(input) == input.CurrentBlock = Nil

\* Calculate: returns the stores, the estimate and the error
Calculate(h, bobjs, tobjs, eobjs, s, input) ==
    IF CurrentBlockAbsent(input)
    THEN [h |-> h, eobjs |-> eobjs, est |-> Nil, err |-> "ErrNotReady"]
    ELSE With(PredictBaseFee(h, bobjs[input.CurrentBlock]), LAMBDA predicted :
         With(SortByValue(predicted.h, CollectHistorical(bobjs, input.RecentBlocks)),
              LAMBDA historicalFees :
         With(CollectMempool(predicted.h, tobjs, input.PendingTxs, predicted.p),
              LAMBDA collected :
         With(SortByValue(collected.h, collected.fees), LAMBDA mempoolFees :
            CalculateTiers(eobjs, s, input, bobjs[input.CurrentBlock].Number,
                           predicted.p, collected.h, historicalFees, mempoolFees)))))

-----------------------------------------------------------------------------
(* Estimator: the data path from the node to the Provider *)

\* the chain id returned by the node
ChainID == 1

\* An eth.Block as the node returns it: its base fee and the fee fields of its
\* transactions are fresh cells.  `spec.base` is -1 for a block without base fee.
RECURSIVE NewTransactions(_, _)
NewTransactions(h, shapes) ==
    IF shapes = <<>> THEN [h |-> h, txs |-> <<>>]
    ELSE With(NewTransaction(h, Head(shapes)), LAMBDA t :
         With(NewTransactions(t.h, Tail(shapes)), LAMBDA rest :
            [h |-> rest.h, txs |-> <<t.tx>> \o rest.txs]))

NewBlock(h, number, spec) ==
    With(IF spec.base < 0 THEN [h |-> h, p |-> Nil] ELSE NewInt(h, spec.base), LAMBDA b :
    With(NewTransactions(b.h, spec.txs), LAMBDA t :
        [h     |-> t.h,
         block |-> [Number |-> number, BaseFee |-> b.p, GasUsed |-> spec.used,
                    GasLimit |-> spec.limit, Transactions |-> t.txs]]))

\* convertBlock: the priority fees are computed against the block's own base fee
RECURSIVE BlockPriorityFees(_, _, _)
BlockPriorityFees(h, txs, baseFee) ==
    IF txs = <<>> THEN [h |-> h, fees |-> <<>>]
    ELSE With(TransactionEffectivePriorityFee(h, Head(txs), baseFee), LAMBDA fee :
         With(BlockPriorityFees(fee.h, Tail(txs), baseFee), LAMBDA rest :
            [h    |-> rest.h,
             fees |-> IF fee.h[fee.p] # 0 THEN <<fee.p>> \o rest.fees ELSE rest.fees]))

ConvertBlock(h, block) ==
    With(BlockPriorityFees(h, block.Transactions, block.BaseFee), LAMBDA f :
        [h  |-> f.h,
         bd |-> [Number |-> block.Number, BaseFee |-> block.BaseFee,
                 GasUsed |-> block.GasUsed, GasLimit |-> block.GasLimit,
                 PriorityFees |-> f.fees]])

\* buildInput: snapshots of the history and the pool, and the published estimate
BuildInput(hist, pool, cur) ==
    LET blocks == HistorySnapshot(hist)
        prev   == ProviderCurrent(cur, "live")
    IN  IF Len(blocks) = 0 THEN [err |-> "no blocks in history"]
        ELSE [err |-> "nil",
              input |-> [ChainID |-> ChainID,
                         CurrentBlock |-> blocks[1],
                         RecentBlocks |-> blocks,
                         PendingTxs |-> LocalTxPoolSnapshot(pool),
                         PreviousEstimate |-> IF prev.err = "nil" THEN prev.est ELSE Nil]]

\* the cells an input of Calculate refers to, and their values
RECURSIVE SeqToSet(_)
SeqToSet(s) == IF s = <<>> THEN {} ELSE {Head(s)} \cup SeqToSet(Tail(s))

TierCells(t) == {t.MaxPriorityFeePerGas, t.MaxFeePerGas}

EstimateCells(e) ==
    {e.BaseFee} \cup TierCells(e.Urgent) \cup TierCells(e.Fast)
        \cup TierCells(e.Standard) \cup TierCells(e.Slow)

BlockCells(b) == {b.BaseFee} \cup SeqToSet(b.PriorityFees)

TxCells(t) == {t.MaxPriorityFeePerGas, t.MaxFeePerGas, t.GasPrice}

InputCells(bobjs, tobjs, eobjs, s, input) ==
    ((IF input.CurrentBlock = Nil THEN {} ELSE BlockCells(bobjs[input.CurrentBlock]))
        \cup UNION { BlockCells(bobjs[b]) : b \in SeqToSet(input.RecentBlocks) }
        \cup UNION { TxCells(tobjs[t]) : t \in SeqToSet(input.PendingTxs) }
        \cup (IF input.PreviousEstimate = Nil THEN {}
              ELSE EstimateCells(eobjs[input.PreviousEstimate]))
        \cup {s.MinPriorityFee, s.MaxPriorityFee}) \ {Nil}

\* the value of everything an input of Calculate refers to
BlockValue(h, b) ==
    [Number |-> b.Number, GasUsed |-> b.GasUsed, GasLimit |-> b.GasLimit,
     BaseFee |-> IF b.BaseFee = Nil THEN -1 ELSE h[b.BaseFee],
     PriorityFees |-> [i \in 1..Len(b.PriorityFees) |-> h[b.PriorityFees[i]]]]

TxValue(h, t) ==
    [IsEIP1559 |-> t.IsEIP1559,
     MaxPriorityFeePerGas |-> IF t.MaxPriorityFeePerGas = Nil THEN -1
                              ELSE h[t.MaxPriorityFeePerGas],
     MaxFeePerGas |-> IF t.MaxFeePerGas = Nil THEN -1 ELSE h[t.MaxFeePerGas],
     GasPrice |-> IF t.GasPrice = Nil THEN -1 ELSE h[t.GasPrice]]

InputValue(h, bobjs, tobjs, eobjs, s, input) ==
    [current  |-> IF input.CurrentBlock = Nil THEN <<>>
                  ELSE <<BlockValue(h, bobjs[input.CurrentBlock])>>,
     recent   |-> [i \in 1..Len(input.RecentBlocks) |->
                      BlockValue(h, bobjs[input.RecentBlocks[i]])],
     pending  |-> [i \in 1..Len(input.PendingTxs) |->
                      TxValue(h, tobjs[input.PendingTxs[i]])],
     previous |-> IF input.PreviousEstimate = Nil THEN <<>>
                  ELSE <<EstimateValue(eobjs, h, input.PreviousEstimate)>>,
     bounds   |-> <<h[s.MinPriorityFee], h[s.MaxPriorityFee]>>]

\* the record kept of a call of Calculate: its input, the value of the input
\* and the size of the stores before the call, and what it returned
CallRecord(h, bobjs, tobjs, eobjs, s, input, ret, n) ==
    [made   |-> TRUE,
     n      |-> n,
     input  |-> input,
     before |-> InputValue(h, bobjs, tobjs, eobjs, s, input),
     cells  |-> Len(h),
     ests   |-> Len(eobjs),
     est    |-> ret.est,
     err    |-> ret.err]

NoCall == [made |-> FALSE, n |-> 0]

\* recalculate that counts an update although buildInput failed
RecalculateCountsFailure(h, hist, pool) ==
    \E in \in {BuildInput(hist, pool, current)} :
       IF in.err # "nil"
       THEN /\ UNCHANGED <<estObjs, current, log, stored, call>>
            /\ updates' = updates + 1
            /\ heap' = h
       ELSE \E r \in {Calculate(h, blockObjs', txObjs', estObjs, strategy, in.input)} :
               /\ call' = CallRecord(h, blockObjs', txObjs', estObjs, strategy,
                                     in.input, r, call.n + 1)
               /\ heap' = r.h
               /\ IF r.err # "nil"
                  THEN /\ estObjs' = r.eobjs
                       /\ UNCHANGED <<current, updates, log, stored>>
                  ELSE \E st \in {ProviderStore(r.eobjs, current, r.est)} :
                          /\ estObjs' = st.objs
                          /\ current' = st.current
                          /\ updates' = updates + 1
                          /\ log' = Append(log, [est |-> r.est,
                                                 val |-> EstimateValue(st.objs, r.h, r.est)])
                          /\ stored' = Append(stored, r.est)

\* recalculate: buildInput, Calculate, Update; an error leaves the Provider alone
Recalculate(h, hist, pool) ==
    \E in \in {BuildInput(hist, pool, current)} :
       IF in.err # "nil"
       THEN /\ UNCHANGED <<estObjs, current, updates, log, stored, call>>
            /\ heap' = h
       ELSE \E r \in {Calculate(h, blockObjs', txObjs', estObjs, strategy, in.input)} :
               /\ call' = CallRecord(h, blockObjs', txObjs', estObjs, strategy,
                                     in.input, r, call.n + 1)
               /\ heap' = r.h
               /\ IF r.err # "nil"
                  THEN /\ estObjs' = r.eobjs
                       /\ UNCHANGED <<current, updates, log, stored>>
                  ELSE \E st \in {ProviderStore(r.eobjs, current, r.est)} :
                          /\ estObjs' = st.objs
                          /\ current' = st.current
                          /\ updates' = updates + 1
                          /\ log' = Append(log, [est |-> r.est,
                                                 val |-> EstimateValue(st.objs, r.h, r.est)])
                          /\ stored' = Append(stored, r.est)

-----------------------------------------------------------------------------
(* SpecCalc: blocks and pending transactions arrive, the estimate is        *)
(* recalculated and published, and Calculate is called on inputs of any     *)
(* shape                                                                    *)

\* The blocks tried: base fee (-1: none), gas used, gas limit, transactions.
\* Gas used is at, above and below the gas target; the gas limit may be odd or
\* below 2 and gas used above the limit; one base fee and one gas price are so
\* large that their products exceed 2^UintBits.
BlockSpec(base, used, limit, txs) ==
    [base |-> base, used |-> used, limit |-> limit, txs |-> txs]

BlockSpecs ==
    { BlockSpec(16, 4, 4, <<TxShape(2, -1, 60, 5), TxShape(0, 30, -1, -1), TxShape(2, -1, 90, 40)>>),
      BlockSpec(16, 0, 4, <<>>),
      BlockSpec(16, 2, 4, <<TxShape(2, -1, 10, 3), TxShape(0, 20, -1, -1)>>),
      BlockSpec(-1, 2, 4, <<>>),
      BlockSpec(MaxUint \div 2 + 1, 4, 4, <<>>),
      BlockSpec(16, 1, 1, <<>>),
      BlockSpec(16, 9, 2, <<>>),
      BlockSpec(16, 3, 3, <<>>),
      BlockSpec(16, 2, 4, <<TxShape(0, 116, -1, -1), TxShape(0, 2201, -1, -1),
                            TxShape(0, 2201, -1, -1)>>) }

PendingShapes ==
    {TxShape(2, -1, 60, 5), TxShape(2, -1, 10, 3), TxShape(0, 30, -1, -1)}

\* MinPriorityFee, MaxPriorityFee (in gwei), HistoricalWeight and SmoothingFactor
\* (in hundredths) of the strategies tried; the first is DefaultStrategy, the
\* third has weights that float64 does not represent exactly, the last has
\* bounds whose weighted sums exceed 2^UintBits
Strategies ==
    { [min |-> 1, max |-> 500, hw |-> 30, sf |-> 10],
      [min |-> 2, max |-> 20, hw |-> 30, sf |-> 0],
      [min |-> 1, max |-> 500, hw |-> 29, sf |-> 29],
      [min |-> 400, max |-> 800, hw |-> 30, sf |-> 10] }

InitCalc ==
    /\ blockObjs = <<>>
    /\ txObjs = <<>>
    /\ estObjs = <<>>
    /\ RingInit(2, 2)
    /\ ProvInit
    /\ \E cfg \in Strategies :
          /\ heap = <<cfg.min, cfg.max>>
          /\ strategy = [MinPriorityFee |-> 1, MaxPriorityFee |-> 2,
                         HistoricalWeight |-> cfg.hw, SmoothingFactor |-> cfg.sf]
    /\ call = NoCall
    /\ RunIdle

\* handleNewBlock: the block is converted and pushed, then recalculate
HandleNewBlock ==
    /\ Len(pushed) < MaxBlocks
    /\ call.n < MaxCalls
    /\ \E spec \in BlockSpecs :
       \E nb \in {NewBlock(heap, Len(pushed) + 1, spec)} :
       \E cb \in {ConvertBlock(nb.h, nb.block)} :
          /\ blockObjs' = Append(blockObjs, cb.bd)
          /\ txObjs' = txObjs
          /\ history' = HistoryPush(history, Len(blockObjs) + 1)
          /\ pushed' = Append(pushed, Len(blockObjs) + 1)
          /\ Recalculate(cb.h, history', localPool)
    /\ UNCHANGED <<localPool, added, writer, readers, strategy, runVars>>

\* the ticker fires: recalculate
Tick ==
    /\ call.n < MaxCalls
    /\ blockObjs' = blockObjs
    /\ txObjs' = txObjs
    /\ Recalculate(heap, history, localPool)
    /\ UNCHANGED <<ringVars, writer, readers, strategy, runVars>>

\* fetchAndAddTxs with one fetched transaction
FetchAndAddTxs ==
    /\ Len(added) < MaxPending
    /\ \E shape \in PendingShapes :
       \E t \in {NewTransaction(heap, shape)} :
          LET r == LocalTxPoolAdd(localPool, txObjs, t.tx)
          IN  /\ heap' = t.h
              /\ txObjs' = r.objs
              /\ localPool' = r.pool
              /\ added' = Append(added, t.tx)
    /\ UNCHANGED <<blockObjs, estObjs, history, pushed, provVars, calcVars, runVars>>

\* the inputs a caller of Strategy.Calculate may build from the objects at hand:
\* with or without current block, with or without the snapshots and the
\* published estimate
DirectInputs ==
    { [ChainID |-> ChainID,
       CurrentBlock |-> c,
       RecentBlocks |-> IF full THEN HistorySnapshot(history) ELSE <<>>,
       PendingTxs |-> IF full THEN LocalTxPoolSnapshot(localPool) ELSE <<>>,
       PreviousEstimate |-> IF full THEN current ELSE Nil] :
        c \in {Nil, HistoryLatest(history)}, full \in BOOLEAN }

\* a call of Calculate that is not followed by Update
StrategyCalculate ==
    /\ call.n < MaxCalls
    /\ \E input \in DirectInputs :
       \E r \in {Calculate(heap, blockObjs, txObjs, estObjs, strategy, input)} :
          /\ call' = CallRecord(heap, blockObjs, txObjs, estObjs, strategy,
                                input, r, call.n + 1)
          /\ heap' = r.h
          /\ estObjs' = r.eobjs
    /\ UNCHANGED <<blockObjs, txObjs, ringVars, provVars, strategy, runVars>>

-----------------------------------------------------------------------------
(* SpecFn: the fee functions applied once to arguments of any shape *)

\* the transactions tried: both type markers, every fee field set or nil
FeeTxShapes ==
    { TxShape(type, gp, mf, mpf) :
        type \in {0, 2}, gp \in {-1, 40, 100}, mf \in {-1, 40, 60, 100}, mpf \in {-1, 10, 20} }

\* the base fees tried (-1: nil)
FeeBases == {-1, 0, 50}

\* the values and the weights (in hundredths) given to blend
BlendValues == {0, 100, 200}
Weights == 0..100

\* the arguments are built: the cells of the base fee and of the transaction,
\* or the two values to blend
InitFn ==
    /\ blockObjs = <<>>
    /\ txObjs = <<>>
    /\ estObjs = <<>>
    /\ RingInit(1, 1)
    /\ ProvInit
    /\ strategy = <<>>
    /\ RunIdle
    /\ \/ \E shape \in FeeTxShapes, base \in FeeBases :
          \E t \in {NewTransaction(IF base < 0 THEN <<>> ELSE <<base>>, shape)} :
             /\ heap = t.h
             /\ call = [made |-> FALSE, n |-> 0, fn |-> "EffectivePriorityFee",
                        tx |-> t.tx, baseFee |-> IF base < 0 THEN Nil ELSE 1,
                        result |-> Nil]
       \/ \E a \in BlendValues, b \in BlendValues, w \in Weights :
             /\ heap = <<a, b>>
             /\ call = [made |-> FALSE, n |-> 0, fn |-> "blend",
                        a |-> 1, b |-> 2, weightA |-> w, result |-> Nil]

\* tx.EffectivePriorityFee(baseFee)
EffectivePriorityFeeCall ==
    /\ ~call.made
    /\ call.fn = "EffectivePriorityFee"
    /\ \E r \in {TransactionEffectivePriorityFee(heap, call.tx, call.baseFee)} :
          /\ heap' = r.h
          /\ call' = [call EXCEPT !.made = TRUE, !.n = 1, !.result = r.p]
    /\ UNCHANGED <<blockObjs, txObjs, estObjs, ringVars, provVars, strategy, runVars>>

\* s.blend(a, b, weightA)
BlendCall ==
    /\ ~call.made
    /\ call.fn = "blend"
    /\ \E r \in {Blend(heap, call.a, call.b, call.weightA)} :
          /\ heap' = r.h
          /\ call' = [call EXCEPT !.made = TRUE, !.n = 1, !.result = r.p]
    /\ UNCHANGED <<blockObjs, txObjs, estObjs, ringVars, provVars, strategy, runVars>>

-----------------------------------------------------------------------------
(* SpecRun: Estimator.Run from its call to its return, with the tasks it    *)
(* starts (processPendingTxs, handleNewBlock), the forwarding tasks of the  *)
(* two subscriptions, and the node, the subscriber and the caller as the    *)
(* environment: every call to the node may fail, the context may be         *)
(* cancelled at any moment and each subscription may end at any moment      *)

\* most headers, and most pending hashes, notified by the node in one run
MaxHeads == 1
MaxHashes == 2
\* most firings of the recalculation ticker in one run
MaxTicks == 1

\* e.historySize, the batchSize of processPendingTxs and the capacities of
\* blockCh and txHashCh, scaled down
HistorySize == 2
BatchSize == 2
BlockChCap == 1
TxHashChCap == 1

Streams == {"heads", "pending"}

\* the numbers of the latest block tried: none to fetch, fewer than the
\* history holds, more than it holds
LatestNumbers == {0, 1, HistorySize + 1}

\* the block the node returns for a number, and the transaction for a hash
NodeBlock(number) ==
    IF number % 2 = 1
    THEN BlockSpec(16, 4, 4, <<TxShape(2, -1, 60, 5), TxShape(0, 30, -1, -1)>>)
    ELSE BlockSpec(16, 0, 4, <<>>)

NodeTx(hash) == IF hash % 2 = 1 THEN TxShape(2, -1, 60, 5) ELSE TxShape(0, 30, -1, -1)

\* the notifications the node sends in one run: headers and a hash, or hashes only
Notifications ==
    { [heads |-> MaxHeads, pending |-> 1], [heads |-> 0, pending |-> MaxHashes] }

\* the results of TransactionsByHashes tried: an error, every transaction, or
\* every transaction but the first, which is nil
FetchResults == {"error", "all", "first nil"}

InitRun ==
    /\ blockObjs = <<>>
    /\ txObjs = <<>>
    /\ estObjs = <<>>
    /\ RingInit(HistorySize, 2)
    /\ ProvInit
    /\ heap = <<1, 500>>
    /\ strategy = [MinPriorityFee |-> 1, MaxPriorityFee |-> 2,
                   HistoricalWeight |-> 30, SmoothingFactor |-> 10]
    /\ call = NoCall
    /\ rootCtx = "live"
    /\ run = [pc |-> "start", err |-> "nil", running |-> FALSE,
              latest |-> 0, i |-> 0, ticks |-> 0]
    /\ \E node \in Notifications :
          chans = [blockCh  |-> [made |-> FALSE, buf |-> <<>>, closed |-> FALSE],
                   txHashCh |-> [made |-> FALSE, buf |-> <<>>, closed |-> FALSE],
                   rawCh    |-> [s \in Streams |->
                                    [sent |-> 0, left |-> node[s], closed |-> FALSE]]]
    /\ fwd = [heads |-> [pc |-> "none", block |-> 0], pending |-> [pc |-> "none"]]
    /\ proc = [pc |-> "none", batch |-> <<>>]
    /\ handlers = <<>>
    /\ ws = NewWSSubscriber
    /\ recalc = <<>>
    /\ trace = [calls |-> <<>>, subscribed |-> <<>>, received |-> <<>>,
                handled |-> <<>>, hashes |-> <<>>, batches |-> <<>>, results |-> <<>>,
                recalcs |-> <<>>, cancelAt |-> "never", ended |-> {}]

\* the call is added to the history of its kind
Traced(kind, e) == [trace EXCEPT ![kind] = Append(@, e)]

\* return err, with the deferred e.running = false
ReturnNoDefer(err) == [run EXCEPT !.pc = "returned", !.err = err]

Return(err) == [run EXCEPT !.pc = "returned", !.err = err, !.running = FALSE]

\* the variables of History, LocalTxPool, Provider and HybridStrategy
engineVars == <<storeVars, ringVars, provVars, calcVars>>

\* recalculate by the task `by`, and its outcome in the history of the recalculations
TracedRecalculate(by, tr, h, hist, pool) ==
    /\ Recalculate(h, hist, pool)
    /\ trace' = [tr EXCEPT !.recalcs = Append(@,
                    [by |-> by,
                     err |-> IF BuildInput(hist, pool, current).err # "nil"
                             THEN BuildInput(hist, pool, current).err
                             ELSE call'.err])]

\* Run: the running flag is taken
RunStart ==
    /\ run.pc = "start"
    /\ run' = [run EXCEPT !.pc = "chainID", !.running = TRUE]
    /\ UNCHANGED <<engineVars, rootCtx, ws, recalc, chans, fwd, proc, handlers, trace>>

\* Run: e.client.ChainID(ctx)
RunChainID ==
    /\ run.pc = "chainID"
    /\ \E ok \in BOOLEAN :
          /\ trace' = Traced("calls", [op |-> "ChainID", number |-> 0, ok |-> ok])
          /\ run' = IF ok THEN [run EXCEPT !.pc = "bootstrap"]
                    ELSE Return("getting chain ID")
    /\ UNCHANGED <<engineVars, rootCtx, ws, recalc, chans, fwd, proc, handlers>>

\* bootstrap: e.client.LatestBlock(ctx)
BootstrapLatestBlock ==
    /\ run.pc = "bootstrap"
    /\ \/ /\ trace' = Traced("calls", [op |-> "LatestBlock", number |-> 0, ok |-> FALSE])
          /\ run' = Return("bootstrapping")
       \/ \E latest \in LatestNumbers :
             /\ trace' = Traced("calls", [op |-> "LatestBlock", number |-> latest,
                                          ok |-> TRUE])
             /\ run' = [run EXCEPT !.pc = "walk", !.latest = latest, !.i = 0]
    /\ UNCHANGED <<engineVars, rootCtx, ws, recalc, chans, fwd, proc, handlers>>

\* a loop condition that allows one turn too many
WalkGoesOnOneMore(r) == r.i <= HistorySize /\ r.latest > r.i

\* the condition of the loop of bootstrap
WalkGoesOn(r) == r.i < HistorySize /\ r.latest > r.i

\* bootstrap: one turn of the loop, BlockByNumber(latest - i) and Push
BootstrapFetch ==
    /\ run.pc = "walk"
    /\ WalkGoesOn(run)
    /\ run' = [run EXCEPT !.i = @ + 1]
    /\ \E ok \in BOOLEAN :
          /\ trace' = Traced("calls", [op |-> "BlockByNumber",
                                       number |-> run.latest - run.i, ok |-> ok])
          /\ IF ok
             THEN \E nb \in {NewBlock(heap, run.latest - run.i,
                                      NodeBlock(run.latest - run.i))} :
                  \E cb \in {ConvertBlock(nb.h, nb.block)} :
                     /\ heap' = cb.h
                     /\ blockObjs' = Append(blockObjs, cb.bd)
                     /\ history' = HistoryPush(history, Len(blockObjs) + 1)
                     /\ pushed' = Append(pushed, Len(blockObjs) + 1)
             ELSE UNCHANGED <<heap, blockObjs, history, pushed>>
    /\ UNCHANGED <<txObjs, estObjs, localPool, added, provVars, calcVars,
                   rootCtx, ws, recalc, chans, fwd, proc, handlers>>

\* bootstrap returns without the initial calculation
BootstrapNoRecalculate ==
    /\ run.pc = "walk"
    /\ ~WalkGoesOn(run)
    /\ run' = [run EXCEPT !.pc = "subHeads"]
    /\ UNCHANGED <<engineVars, rootCtx, ws, recalc, chans, fwd, proc, handlers, trace>>

\* bootstrap: the loop is over, recalculate, return nil
BootstrapRecalculate ==
    /\ run.pc = "walk"
    /\ ~WalkGoesOn(run)
    /\ blockObjs' = blockObjs
    /\ txObjs' = txObjs
    /\ TracedRecalculate("bootstrap", trace, heap, history, localPool)
    /\ run' = [run EXCEPT !.pc = "subHeads"]
    /\ UNCHANGED <<ringVars, writer, readers, strategy, rootCtx, ws, recalc, chans, fwd, proc,
                   handlers>>

\* Run: e.subscriber.SubscribeNewHeads(ctx); the forwarding task is started
RunSubscribeNewHeads ==
    /\ run.pc = "subHeads"
    /\ \/ /\ run' = Return("subscribing to new heads")
          /\ UNCHANGED <<chans, fwd, trace>>
       \/ /\ run' = [run EXCEPT !.pc = "subPending"]
          /\ chans' = [chans EXCEPT !.blockCh.made = TRUE]
          /\ fwd' = [fwd EXCEPT !.heads.pc = "select"]
          /\ trace' = Traced("subscribed", "heads")
    /\ UNCHANGED <<engineVars, rootCtx, ws, recalc, proc, handlers>>

\* Run: e.subscriber.SubscribeNewPendingTransactions(ctx), then the ticker is
\* armed, processPendingTxs is started and the loop is entered
RunSubscribeNewPendingTransactions ==
    /\ run.pc = "subPending"
    /\ \/ /\ run' = Return("subscribing to pending txs")
          /\ UNCHANGED <<chans, fwd, proc, trace>>
       \/ /\ run' = [run EXCEPT !.pc = "loop"]
          /\ chans' = [chans EXCEPT !.txHashCh.made = TRUE]
          /\ fwd' = [fwd EXCEPT !.pending.pc = "select"]
          /\ proc' = [proc EXCEPT !.pc = "select"]
          /\ trace' = Traced("subscribed", "pending")
    /\ UNCHANGED <<engineVars, rootCtx, ws, recalc, handlers>>

\* Run, select: case <-ctx.Done()
RunCtxDone ==
    /\ run.pc = "loop"
    /\ rootCtx = "cancelled"
    /\ run' = Return("nil")
    /\ UNCHANGED <<engineVars, rootCtx, ws, recalc, chans, fwd, proc, handlers, trace>>

\* Run, select: case block, ok := <-blockCh with a header: go handleNewBlock
RunRecvBlock ==
    /\ run.pc = "loop"
    /\ chans.blockCh.buf # <<>>
    /\ chans' = [chans EXCEPT !.blockCh.buf = Tail(@)]
    /\ handlers' = Append(handlers, Head(chans.blockCh.buf))
    /\ trace' = Traced("received", Head(chans.blockCh.buf))
    /\ UNCHANGED <<engineVars, rootCtx, ws, recalc, run, fwd, proc>>

\* Run, select: case block, ok := <-blockCh on the closed channel
RunBlockChClosed ==
    /\ run.pc = "loop"
    /\ chans.blockCh.closed
    /\ chans.blockCh.buf = <<>>
    /\ run' = Return("block subscription closed")
    /\ UNCHANGED <<engineVars, rootCtx, ws, recalc, chans, fwd, proc, handlers, trace>>

\* Run, select: case <-ticker.C: recalculate
RunTick ==
    /\ run.pc = "loop"
    /\ run.ticks < MaxTicks
    /\ run' = [run EXCEPT !.ticks = @ + 1]
    /\ blockObjs' = blockObjs
    /\ txObjs' = txObjs
    /\ TracedRecalculate("ticker", trace, heap, history, localPool)
    /\ UNCHANGED <<ringVars, writer, readers, strategy, rootCtx, ws, recalc, chans, fwd, proc,
                   handlers>>
\* handleNewBlock that recalculates although the fetch failed
HandleNewBlockAlwaysRecalculates ==
    \E k \in 1..Len(handlers) :
       /\ handlers' = [j \in 1..(Len(handlers) - 1) |->
                          IF j < k THEN handlers[j] ELSE handlers[j + 1]]
       /\ blockObjs' = blockObjs
       /\ txObjs' = txObjs
       /\ TracedRecalculate("handleNewBlock",
                            Traced("handled", [number |-> handlers[k], ok |-> FALSE]),
                            heap, history, localPool)
       /\ UNCHANGED <<ringVars, writer, readers, strategy>>
       /\ UNCHANGED <<rootCtx, ws, recalc, run, chans, fwd, proc>>


\* handleNewBlock(ctx, block) in its own task: BlockByNumber(block.Number),
\* then Push and recalculate, or return on the error
HandleNewBlockTask ==
    \E k \in 1..Len(handlers) :
       /\ handlers' = [j \in 1..(Len(handlers) - 1) |->
                          IF j < k THEN handlers[j] ELSE handlers[j + 1]]
       /\ \/ /\ trace' = Traced("handled", [number |-> handlers[k], ok |-> FALSE])
             /\ UNCHANGED <<engineVars>>
          \/ \E nb \in {NewBlock(heap, handlers[k], NodeBlock(handlers[k]))} :
             \E cb \in {ConvertBlock(nb.h, nb.block)} :
                /\ blockObjs' = Append(blockObjs, cb.bd)
                /\ txObjs' = txObjs
                /\ history' = HistoryPush(history, Len(blockObjs) + 1)
                /\ pushed' = Append(pushed, Len(blockObjs) + 1)
                /\ TracedRecalculate("handleNewBlock",
                                     Traced("handled", [number |-> handlers[k],
                                                        ok |-> TRUE]),
                                     cb.h, history', localPool)
                /\ UNCHANGED <<localPool, added, writer, readers, strategy>>
       /\ UNCHANGED <<rootCtx, ws, recalc, run, chans, fwd, proc>>

\* the forwarding task returns and leaves blockCh open
HeadsReturnNoClose ==
    /\ fwd' = [fwd EXCEPT !.heads.pc = "done"]
    /\ chans' = [chans EXCEPT !.rawCh["heads"].closed = TRUE]
    /\ UNCHANGED <<engineVars, rootCtx, ws, recalc, run, proc, handlers, trace>>

\* the forwarding task of SubscribeNewHeads returns: the deferred
\* unsubscribe(subID) closes rawCh, the deferred close(blockCh) closes blockCh
HeadsReturn ==
    /\ fwd' = [fwd EXCEPT !.heads.pc = "done"]
    /\ chans' = [chans EXCEPT !.rawCh["heads"].closed = TRUE,
                              !.blockCh.closed = TRUE]
    /\ UNCHANGED <<engineVars, rootCtx, ws, recalc, run, proc, handlers, trace>>

\* forwarding task of the heads, outer select: case raw, ok := <-rawCh with a
\* notification, parsed into a header
HeadsRecv ==
    /\ fwd.heads.pc = "select"
    /\ ~chans.rawCh["heads"].closed
    /\ chans.rawCh["heads"].left > 0
    /\ chans' = [chans EXCEPT !.rawCh["heads"].sent = @ + 1,
                              !.rawCh["heads"].left = @ - 1]
    /\ fwd' = [fwd EXCEPT !.heads.pc = "send",
                          !.heads.block = run.latest + chans.rawCh["heads"].sent + 1]
    /\ UNCHANGED <<engineVars, rootCtx, ws, recalc, run, proc, handlers, trace>>

\* outer select: case raw, ok := <-rawCh on the closed channel
HeadsRawClosed ==
    /\ fwd.heads.pc = "select"
    /\ chans.rawCh["heads"].closed
    /\ HeadsReturn

\* inner select: case blockCh <- block
HeadsSend ==
    /\ fwd.heads.pc = "send"
    /\ Len(chans.blockCh.buf) < BlockChCap
    /\ chans' = [chans EXCEPT !.blockCh.buf = Append(@, fwd.heads.block)]
    /\ fwd' = [fwd EXCEPT !.heads.pc = "select"]
    /\ UNCHANGED <<engineVars, rootCtx, ws, recalc, run, proc, handlers, trace>>

\* either select: case <-ctx.Done()
HeadsCtxDone ==
    /\ fwd.heads.pc \in {"select", "send"}
    /\ rootCtx = "cancelled"
    /\ HeadsReturn

\* the forwarding task of SubscribeNewPendingTransactions returns
PendingReturn ==
    /\ fwd' = [fwd EXCEPT !.pending.pc = "done"]
    /\ chans' = [chans EXCEPT !.rawCh["pending"].closed = TRUE,
                              !.txHashCh.closed = TRUE]
    /\ UNCHANGED <<engineVars, rootCtx, ws, recalc, run, proc, handlers, trace>>
\* a forwarding that queues the hash whatever the length of the queue
PendingRecvUnbounded ==
    /\ fwd.pending.pc = "select"
    /\ ~chans.rawCh["pending"].closed
    /\ chans.rawCh["pending"].left > 0
    /\ chans' = [chans EXCEPT
                    !.rawCh["pending"].sent = @ + 1,
                    !.rawCh["pending"].left = @ - 1,
                    !.txHashCh.buf = Append(@, chans.rawCh["pending"].sent + 1)]
    /\ UNCHANGED <<engineVars, rootCtx, ws, recalc, run, fwd, proc, handlers, trace>>

\* forwarding task of the pending hashes: case raw, ok := <-rawCh with a hash,
\* which is sent to txHashCh, or dropped when txHashCh is full
PendingRecv ==
    /\ fwd.pending.pc = "select"
    /\ ~chans.rawCh["pending"].closed
    /\ chans.rawCh["pending"].left > 0
    /\ chans' = [chans EXCEPT
                    !.rawCh["pending"].sent = @ + 1,
                    !.rawCh["pending"].left = @ - 1,
                    !.txHashCh.buf = IF Len(@) < TxHashChCap
                                     THEN Append(@, chans.rawCh["pending"].sent + 1)
                                     ELSE @]
    /\ UNCHANGED <<engineVars, rootCtx, ws, recalc, run, fwd, proc, handlers, trace>>

PendingRawClosed ==
    /\ fwd.pending.pc = "select"
    /\ chans.rawCh["pending"].closed
    /\ PendingReturn

PendingCtxDone ==
    /\ fwd.pending.pc = "select"
    /\ rootCtx = "cancelled"
    /\ PendingReturn

\* fetchAndAddTxs: the transactions returned for the hashes are added to the pool
RECURSIVE AddFetched(_, _, _, _, _, _)
AddFetched(h, objs, pool, adds, hashes, result) ==
    IF hashes = <<>> THEN [h |-> h, objs |-> objs, pool |-> pool, adds |-> adds]
    ELSE IF result = "first nil"
    THEN AddFetched(h, objs, pool, adds, Tail(hashes), "all")
    ELSE With(NewTransaction(h, NodeTx(Head(hashes))), LAMBDA t :
         With(LocalTxPoolAdd(pool, objs, t.tx), LAMBDA r :
            AddFetched(t.h, r.objs, r.pool, Append(adds, t.tx), Tail(hashes), "all")))

\* fetchAndAddTxs that goes on to the loop although the fetch failed
FetchAndAddBatchIgnoresError(tr, batch) ==
    \E result \in FetchResults :
       /\ trace' = [tr EXCEPT !.batches = Append(@, batch),
                              !.results = Append(@, result)]
       /\ \E r \in {AddFetched(heap, txObjs, localPool, added, batch, result)} :
             /\ heap' = r.h
             /\ txObjs' = r.objs
             /\ localPool' = r.pool
             /\ added' = r.adds

FetchAndAddBatch(tr, batch) ==
    \E result \in FetchResults :
       /\ trace' = [tr EXCEPT !.batches = Append(@, batch),
                              !.results = Append(@, result)]
       /\ IF result = "error"
          THEN UNCHANGED <<heap, txObjs, localPool, added>>
          ELSE \E r \in {AddFetched(heap, txObjs, localPool, added, batch, result)} :
                  /\ heap' = r.h
                  /\ txObjs' = r.objs
                  /\ localPool' = r.pool
                  /\ added' = r.adds

\* processPendingTxs, select: case hash, ok := <-ch with a hash
ProcRecv ==
    /\ proc.pc = "select"
    /\ chans.txHashCh.buf # <<>>
    /\ chans' = [chans EXCEPT !.txHashCh.buf = Tail(@)]
    /\ \E batch \in {Append(proc.batch, Head(chans.txHashCh.buf))} :
          IF Len(batch) >= BatchSize
          THEN /\ FetchAndAddBatch(Traced("hashes", Head(chans.txHashCh.buf)), batch)
               /\ proc' = [proc EXCEPT !.batch = <<>>]
          ELSE /\ proc' = [proc EXCEPT !.batch = batch]
               /\ trace' = Traced("hashes", Head(chans.txHashCh.buf))
               /\ UNCHANGED <<heap, txObjs, localPool, added>>
    /\ UNCHANGED <<blockObjs, estObjs, history, pushed, provVars, calcVars,
                   rootCtx, ws, recalc, run, fwd, handlers>>

\* the timer case without batch = batch[:0]
ProcTimerKeepsBatch ==
    /\ proc.pc = "select"
    /\ IF Len(proc.batch) > 0
       THEN /\ FetchAndAddBatch(trace, proc.batch)
            /\ proc' = proc
       ELSE UNCHANGED <<heap, txObjs, localPool, added, proc, trace>>
    /\ UNCHANGED <<blockObjs, estObjs, history, pushed, provVars, calcVars,
                   rootCtx, ws, recalc, run, chans, fwd, handlers>>

\* select: case <-timer.C
ProcTimer ==
    /\ proc.pc = "select"
    /\ IF Len(proc.batch) > 0
       THEN /\ FetchAndAddBatch(trace, proc.batch)
            /\ proc' = [proc EXCEPT !.batch = <<>>]
       ELSE UNCHANGED <<heap, txObjs, localPool, added, proc, trace>>
    /\ UNCHANGED <<blockObjs, estObjs, history, pushed, provVars, calcVars,
                   rootCtx, ws, recalc, run, chans, fwd, handlers>>

\* select: case hash, ok := <-ch on the closed channel
ProcChClosed ==
    /\ proc.pc = "select"
    /\ chans.txHashCh.closed
    /\ chans.txHashCh.buf = <<>>
    /\ proc' = [proc EXCEPT !.pc = "done"]
    /\ UNCHANGED <<engineVars, rootCtx, ws, recalc, run, chans, fwd, handlers, trace>>

\* select: case <-ctx.Done()
ProcCtxDone ==
    /\ proc.pc = "select"
    /\ rootCtx = "cancelled"
    /\ proc' = [proc EXCEPT !.pc = "done"]
    /\ UNCHANGED <<engineVars, rootCtx, ws, recalc, run, chans, fwd, handlers, trace>>

\* the caller cancels the context
Cancel ==
    /\ rootCtx = "live"
    /\ run.pc # "returned"
    /\ rootCtx' = "cancelled"
    /\ trace' = [trace EXCEPT !.cancelAt = IF run.pc = "loop" THEN "loop" ELSE "startup"]
    /\ UNCHANGED <<engineVars, ws, recalc, run, chans, fwd, proc, handlers>>

\* a subscription ends: the subscriber closes rawCh
StreamEnd(s) ==
    /\ fwd[s].pc \in {"select", "send"}
    /\ ~chans.rawCh[s].closed
    /\ chans' = [chans EXCEPT !.rawCh[s].closed = TRUE]
    /\ trace' = [trace EXCEPT !.ended = @ \cup {s}]
    /\ UNCHANGED <<engineVars, rootCtx, ws, recalc, run, fwd, proc, handlers>>

-----------------------------------------------------------------------------
(* recalculate step by step: Run calls it on a tick, every handleNewBlock
   task calls it after its Push, and nothing orders the calls of different
   tasks: each one reads the history, the pool and the published estimate in
   buildInput and publishes later, in Update. *)

Without(seq, k) ==
    [j \in 1..(Len(seq) - 1) |-> IF j < k THEN seq[j] ELSE seq[j + 1]]

\* Run, select: case <-ticker.C: Run enters recalculate
RunTickBegins ==
    /\ run.pc = "loop"
    /\ run.ticks < MaxTicks
    /\ run' = [run EXCEPT !.pc = "recalculate", !.ticks = @ + 1]
    /\ recalc' = Append(recalc, [by |-> "ticker", pc |-> "buildInput", input |-> <<>>])
    /\ UNCHANGED <<engineVars, rootCtx, ws, chans, fwd, proc, handlers, trace>>

\* handleNewBlock(ctx, block) in its own task: BlockByNumber(block.Number),
\* then Push and the task enters recalculate, or it returns on the error
HandleNewBlockFetch ==
    \E k \in 1..Len(handlers) :
       /\ handlers' = Without(handlers, k)
       /\ \/ /\ trace' = Traced("handled", [number |-> handlers[k], ok |-> FALSE])
             /\ UNCHANGED <<engineVars, recalc>>
          \/ \E nb \in {NewBlock(heap, handlers[k], NodeBlock(handlers[k]))} :
             \E cb \in {ConvertBlock(nb.h, nb.block)} :
                /\ heap' = cb.h
                /\ blockObjs' = Append(blockObjs, cb.bd)
                /\ history' = HistoryPush(history, Len(blockObjs) + 1)
                /\ pushed' = Append(pushed, Len(blockObjs) + 1)
                /\ recalc' = Append(recalc, [by |-> "handleNewBlock",
                                             pc |-> "buildInput", input |-> <<>>])
                /\ trace' = Traced("handled", [number |-> handlers[k], ok |-> TRUE])
                /\ UNCHANGED <<txObjs, estObjs, localPool, added, provVars, calcVars>>
       /\ UNCHANGED <<rootCtx, ws, run, chans, fwd, proc>>

\* recalculate of the task k: buildInput, and the return on its error
RecalculateBuildInput(k) ==
    /\ recalc[k].pc = "buildInput"
    /\ \E in \in {BuildInput(history, localPool, current)} :
          IF in.err # "nil"
          THEN /\ recalc' = Without(recalc, k)
               /\ run' = IF recalc[k].by = "ticker" THEN [run EXCEPT !.pc = "loop"]
                         ELSE run
               /\ trace' = Traced("recalcs", [by |-> recalc[k].by, err |-> in.err])
          ELSE /\ recalc' = [recalc EXCEPT ![k].pc = "Calculate",
                                           ![k].input = <<in.input>>]
               /\ UNCHANGED <<run, trace>>
    /\ UNCHANGED <<engineVars, rootCtx, ws, chans, fwd, proc, handlers>>

\* recalculate of the task k: Calculate on the input it built, then Update
RecalculateUpdate(k) ==
    /\ recalc[k].pc = "Calculate"
    /\ \E r \in {Calculate(heap, blockObjs, txObjs, estObjs, strategy,
                           recalc[k].input[1])} :
          /\ call' = CallRecord(heap, blockObjs, txObjs, estObjs, strategy,
                                recalc[k].input[1], r, call.n + 1)
          /\ heap' = r.h
          /\ trace' = Traced("recalcs", [by |-> recalc[k].by, err |-> r.err])
          /\ IF r.err # "nil"
             THEN /\ estObjs' = r.eobjs
                  /\ UNCHANGED <<current, updates, log, stored>>
             ELSE \E st \in {ProviderStore(r.eobjs, current, r.est)} :
                     /\ estObjs' = st.objs
                     /\ current' = st.current
                     /\ updates' = updates + 1
                     /\ log' = Append(log, [est |-> r.est,
                                            val |-> EstimateValue(st.objs, r.h, r.est)])
                     /\ stored' = Append(stored, r.est)
    /\ recalc' = Without(recalc, k)
    /\ run' = IF recalc[k].by = "ticker" THEN [run EXCEPT !.pc = "loop"] ELSE run
    /\ UNCHANGED <<blockObjs, txObjs, ringVars, writer, readers, strategy, rootCtx, ws,
                   chans, fwd, proc, handlers>>

-----------------------------------------------------------------------------
(* WSSubscriber: the state lock mu, the write lock writeMu and the tasks that
   take them.  A task is the caller of Close, one of the two forwarding tasks
   (which call unsubscribe when they stop) or the read loop (which answers a
   ping by writePong and clears the connection when it ends). *)

\* the number of pings the node sends
MaxPings == 1

Forwarders == {"heads", "pending"}
Writers == Forwarders \cup {"readLoop"}

\* a lock is "free" or held by a task; Lock() waits until it is free

\* Connect: under mu, the connection is made and the read loop started
Connect ==
    /\ ws.mu = "free"
    /\ ~ws.closed
    /\ ws.conn = "nil"
    /\ ws.tasks["readLoop"] = "none"
    /\ ws' = [ws EXCEPT !.conn = "open", !.tasks["readLoop"] = "read"]
    /\ UNCHANGED <<engineVars, rootCtx, recalc, run, chans, fwd, proc, handlers, trace>>

\* SubscribeNewHeads, SubscribeNewPendingTransactions: the request is written
\* (writeMu, then mu) and the forwarding task is started
Subscribe(t) ==
    /\ ws.tasks[t] = "none"
    /\ ws.conn = "open"
    /\ ws.mu = "free" /\ ws.writeMu = "free"
    /\ ws' = [ws EXCEPT !.tasks[t] = "select"]
    /\ UNCHANGED <<engineVars, rootCtx, recalc, run, chans, fwd, proc, handlers, trace>>

\* a forwarding task leaves its loop (ctx.Done, s.done or rawCh closed) and runs
\* the deferred unsubscribe
ForwarderStops(t) ==
    /\ ws.tasks[t] = "select"
    /\ ws' = [ws EXCEPT !.tasks[t] = "unsubscribe"]
    /\ UNCHANGED <<engineVars, rootCtx, recalc, run, chans, fwd, proc, handlers, trace>>

\* unsubscribe: s.mu.Lock(), the channel is closed and deleted, s.mu.Unlock();
\* then writeJSON
Unsubscribe(t) ==
    /\ ws.tasks[t] = "unsubscribe"
    /\ ws.mu = "free"
    /\ ws' = [ws EXCEPT !.tasks[t] = "writeMu.Lock"]
    /\ UNCHANGED <<engineVars, rootCtx, recalc, run, chans, fwd, proc, handlers, trace>>

\* readFrame: a ping is read, writePong is called
ReadPing ==
    /\ ws.tasks["readLoop"] = "read"
    /\ ws.pings < MaxPings
    /\ ws' = [ws EXCEPT !.tasks["readLoop"] = "writeMu.Lock", !.pings = @ + 1]
    /\ UNCHANGED <<engineVars, rootCtx, recalc, run, chans, fwd, proc, handlers, trace>>

\* readLoop returns (s.done, or an error of readFrame): the deferred function
\* takes mu, closes the subscriptions and clears the connection
ReadLoopEnds ==
    /\ ws.tasks["readLoop"] = "read"
    /\ ws.mu = "free"
    /\ ws' = [ws EXCEPT !.conn = "nil", !.tasks["readLoop"] = "done"]
    /\ UNCHANGED <<engineVars, rootCtx, recalc, run, chans, fwd, proc, handlers, trace>>

\* writeFrame, writePong: s.writeMu.Lock()
WriteLock(t) ==
    /\ ws.tasks[t] = "writeMu.Lock"
    /\ ws.writeMu = "free"
    /\ ws' = [ws EXCEPT !.writeMu = t, !.tasks[t] = "mu.Lock"]
    /\ UNCHANGED <<engineVars, rootCtx, recalc, run, chans, fwd, proc, handlers, trace>>

\* writeFrame, writePong, holding writeMu: s.mu.Lock(); conn := s.conn;
\* s.mu.Unlock()
WriteReadConn(t) ==
    /\ ws.tasks[t] = "mu.Lock"
    /\ ws.mu = "free"
    /\ ws' = [ws EXCEPT !.tasks[t] = "write"]
    /\ UNCHANGED <<engineVars, rootCtx, recalc, run, chans, fwd, proc, handlers, trace>>

\* writeFrame, writePong: the frame is written, or the error "connection
\* closed" returned; the deferred s.writeMu.Unlock()
WriteFrame(t) ==
    /\ ws.tasks[t] = "write"
    /\ ws' = [ws EXCEPT !.writeMu = "free",
                        !.tasks[t] = IF t = "readLoop" THEN "read" ELSE "done"]
    /\ UNCHANGED <<engineVars, rootCtx, recalc, run, chans, fwd, proc, handlers, trace>>

\* Close: s.closed.Swap(true) was false, close(s.done)
CloseSwap ==
    /\ ws.tasks["Close"] = "none"
    /\ ws' = [ws EXCEPT !.closed = TRUE, !.done = TRUE, !.tasks["Close"] = "mu.Lock"]
    /\ UNCHANGED <<engineVars, rootCtx, recalc, run, chans, fwd, proc, handlers, trace>>

\* Close: s.mu.Lock(), released by the deferred Unlock when Close returns;
\* with no connection Close returns at once
CloseLockMu ==
    /\ ws.tasks["Close"] = "mu.Lock"
    /\ ws.mu = "free"
    /\ ws' = IF ws.conn = "nil"
             THEN [ws EXCEPT !.tasks["Close"] = "returned"]
             ELSE [ws EXCEPT !.mu = "Close", !.tasks["Close"] = "writeMu.Lock"]
    /\ UNCHANGED <<engineVars, rootCtx, recalc, run, chans, fwd, proc, handlers, trace>>

\* Close, holding mu: s.writeMu.Lock(), the close frame, s.writeMu.Unlock(),
\* s.conn.Close(), return
CloseLockWriteMu ==
    /\ ws.tasks["Close"] = "writeMu.Lock"
    /\ ws.writeMu = "free"
    /\ ws' = [ws EXCEPT !.mu = "free", !.tasks["Close"] = "returned"]
    /\ UNCHANGED <<engineVars, rootCtx, recalc, run, chans, fwd, proc, handlers, trace>>

-----------------------------------------------------------------------------
(* Specifications *)

\* no strategy is in use and Calculate has not been called
CalcIdle ==
    /\ strategy = <<>>
    /\ call = NoCall

InitRing ==
    /\ StoresInit
    /\ \E hcap \in 1..MaxCap, pcap \in 0..MaxCap : RingInit(hcap, pcap)
    /\ ProvInit
    /\ CalcIdle
    /\ RunIdle

NextRing == RingPush \/ RingAdd

SpecRing == InitRing /\ [][NextRing]_vars

InitProv ==
    /\ StoresInit
    /\ RingInit(1, 1)
    /\ ProvInit
    /\ CalcIdle
    /\ RunIdle

NextProv ==
    \/ WriterCall
    \/ UpdateStore
    \/ UpdateAdd
    \/ \E r \in Readers : ReaderCurrent(r)
    \/ \E r \in Readers : ReaderReadField(r)
    \/ \E r \in Readers : ReaderUpdateCount(r)

SpecProv == InitProv /\ [][NextProv]_vars

NextCalc == HandleNewBlock \/ Tick \/ FetchAndAddTxs \/ StrategyCalculate

SpecCalc == InitCalc /\ [][NextCalc]_vars

NextFn == EffectivePriorityFeeCall \/ BlendCall

SpecFn == InitFn /\ [][NextFn]_vars
InitWS ==
    /\ StoresInit
    /\ RingInit(1, 1)
    /\ ProvInit
    /\ CalcIdle
    /\ RunIdle

NextWS ==
    \/ Connect
    \/ \E t \in Forwarders : Subscribe(t)
    \/ \E t \in Forwarders : ForwarderStops(t)
    \/ \E t \in Forwarders : Unsubscribe(t)
    \/ ReadPing
    \/ ReadLoopEnds
    \/ \E t \in Writers : WriteLock(t)
    \/ \E t \in Writers : WriteReadConn(t)
    \/ \E t \in Writers : WriteFrame(t)
    \/ CloseSwap
    \/ CloseLockMu
    \/ CloseLockWriteMu

SpecWS == InitWS /\ [][NextWS]_vars

NextRun ==
    \/ RunStart
    \/ RunChainID
    \/ BootstrapLatestBlock
    \/ BootstrapFetch
    \/ BootstrapRecalculate
    \/ RunSubscribeNewHeads
    \/ RunSubscribeNewPendingTransactions
    \/ RunCtxDone
    \/ RunRecvBlock
    \/ RunBlockChClosed
    \/ RunTick
    \/ HandleNewBlockTask
    \/ HeadsRecv
    \/ HeadsRawClosed
    \/ HeadsSend
    \/ HeadsCtxDone
    \/ PendingRecv
    \/ PendingRawClosed
    \/ PendingCtxDone
    \/ ProcRecv
    \/ ProcTimer
    \/ ProcChClosed
    \/ ProcCtxDone
    \/ Cancel
    \/ \E s \in Streams : StreamEnd(s)

SpecRun == InitRun /\ [][NextRun]_vars

\* Run with the steps of recalculate interleaved: the startup, the header
\* forwarder, the handlers and the ticker
NextConc ==
    \/ RunStart
    \/ RunChainID
    \/ BootstrapLatestBlock
    \/ BootstrapFetch
    \/ BootstrapRecalculate
    \/ RunSubscribeNewHeads
    \/ RunSubscribeNewPendingTransactions
    \/ HeadsRecv
    \/ HeadsSend
    \/ RunRecvBlock
    \/ RunTickBegins
    \/ HandleNewBlockFetch
    \/ \E k \in 1..Len(recalc) : RecalculateBuildInput(k)
    \/ \E k \in 1..Len(recalc) : RecalculateUpdate(k)

SpecConc == InitRun /\ [][NextConc]_vars

\* Every step of Run and of its tasks that stays possible is taken in the end:
\* the scheduler runs every task, and a select with several ready cases picks
\* among them at random.  The caller and the subscriber are under no obligation.
FairRun ==
    /\ SpecRun
    /\ WF_vars(RunStart)
    /\ WF_vars(RunChainID)
    /\ WF_vars(BootstrapLatestBlock)
    /\ WF_vars(BootstrapFetch)
    /\ WF_vars(BootstrapRecalculate)
    /\ WF_vars(RunSubscribeNewHeads)
    /\ WF_vars(RunSubscribeNewPendingTransactions)
    /\ WF_vars(RunCtxDone)
    /\ WF_vars(RunRecvBlock)
    /\ WF_vars(RunBlockChClosed)
    /\ WF_vars(RunTick)
    /\ WF_vars(HandleNewBlockTask)
    /\ WF_vars(HeadsRecv)
    /\ WF_vars(HeadsRawClosed)
    /\ WF_vars(HeadsSend)
    /\ WF_vars(HeadsCtxDone)
    /\ WF_vars(PendingRecv)
    /\ WF_vars(PendingRawClosed)
    /\ WF_vars(PendingCtxDone)
    /\ WF_vars(ProcRecv)
    /\ WF_vars(ProcTimer)
    /\ WF_vars(ProcChClosed)
    /\ WF_vars(ProcCtxDone)

-----------------------------------------------------------------------------
(* Claims on History and LocalTxPool, checked under SpecRing *)

\* C1: after k Push calls b1..bk on an empty History of capacity c, Snapshot()
\* is exactly [bk, b(k-1), ..., b(max(1, k-c+1))]: min(k, c) entries, the
\* newest-pushed first, the oldest-pushed dropped by a Push while full.
C1_SnapshotNewestFirst ==
    LET k == Len(pushed)
        c == history.size
    IN  /\ HistoryLen(history) = Min(k, c)
        /\ HistorySnapshot(history) = [i \in 1..Min(k, c) |-> pushed[k - i + 1]]

\* two pushes beyond a capacity of 2: the two oldest blocks are gone
C1_Witness ==
    /\ history.size = 2
    /\ Len(pushed) = 4
    /\ HistorySnapshot(history) = <<pushed[4], pushed[3]>>

\* C2: after k Add calls t1..tk on an empty LocalTxPool of capacity c, Snapshot()
\* is exactly the records of t(max(1, k-c+1)), ..., tk, the oldest first: at
\* most c entries, the oldest record dropped by an Add while full.
C2_PoolSnapshotOldestFirst ==
    LET k    == Len(added)
        n    == Min(k, localPool.size)
        snap == LocalTxPoolSnapshot(localPool)
    IN  /\ Len(snap) = n
        /\ \A i \in 1..n : /\ txObjs[snap[i]] = TxDataOf(added[k - n + i])
                           /\ snap[i] = k - n + i

\* capacity 3 and four adds of different transactions: the last three remain
C2_Witness ==
    /\ localPool.size = 3
    /\ Len(added) = 4
    /\ TxDataOf(added[1]) # TxDataOf(added[2])
    /\ LET snap == LocalTxPoolSnapshot(localPool)
       IN  [i \in 1..Len(snap) |-> txObjs[snap[i]]]
               = <<TxDataOf(added[2]), TxDataOf(added[3]), TxDataOf(added[4])>>

-----------------------------------------------------------------------------
(* Claims on Provider, checked under SpecProv *)

\* the position in the order of updates of the estimate at address e
UpdateIndex(e) == CHOOSE i \in 1..Len(log) : log[i].est = e

\* C3: once Update(x) has completed and until the next Update is performed,
\* Current() with a live context returns the reference x and no error.
C3_CurrentReturnsLastUpdate ==
    (writer.step = 0 /\ Len(log) > 0)
        => ProviderCurrent(current, "live") = [est |-> log[Len(log)].est, err |-> "nil"]

\* after the second Update a reader holds the second bundle
C3_Witness ==
    /\ writer.step = 0
    /\ Len(log) = 2
    /\ \E r \in Readers : /\ readers[r].ctx = "live"
                          /\ readers[r].err = "nil"
                          /\ readers[r].est = log[2].est
                          /\ readers[r].prevEst = log[1].est

\* C4: Ready() is true iff at least one bundle has been published; before the
\* first publication Ready() is false and Current() returns ErrNotReady; once
\* Ready() is true it never becomes false again.
C4_ReadyIffPublished ==
    /\ [](/\ ProviderReady(current, updates) <=> Len(stored) > 0
          /\ Len(stored) = 0 =>
                ProviderCurrent(current, "live") = [est |-> Nil, err |-> "ErrNotReady"])
    /\ [][ProviderReady(current, updates) => ProviderReady(current', updates')]_vars

\* a reader was told ErrNotReady before the first Update, and the Provider is
\* ready after the second
C4_Witness ==
    /\ ProviderReady(current, updates)
    /\ Len(stored) = 2
    /\ \E r \in Readers : /\ readers[r].ctx = "live"
                          /\ readers[r].err = "ErrNotReady"
                          /\ ~readers[r].ready

\* C5 as stated: whatever the caller's context, Ready() is true iff Current
\* returns a bundle rather than an error.
C5_ReadyIffCurrentAnyContext ==
    \A ctx \in {"live", "canceled"} :
        ProviderReady(current, updates) <=> ProviderCurrent(current, ctx).err = "nil"

\* C5: with a live context Ready() is true iff Current returns a bundle; with a
\* cancelled context Current returns the context's error and no bundle, whether
\* the Provider is ready or not.
C5_ReadyIffCurrentLiveContext ==
    /\ ProviderReady(current, updates) <=> ProviderCurrent(current, "live").err = "nil"
    /\ ProviderCurrent(current, "canceled") = [est |-> Nil, err |-> "canceled"]
    /\ \A r \in Readers :
          /\ readers[r].ctx = "live" => (readers[r].ready <=> readers[r].err = "nil")
          /\ readers[r].ctx = "canceled" => readers[r].err = "canceled"

\* a reader with a cancelled context got the context's error from a ready Provider
C5_Witness ==
    \E r \in Readers : /\ readers[r].ctx = "canceled"
                       /\ readers[r].ready
                       /\ readers[r].err = "canceled"

\* C6: a reader's successive UpdateCount() reads are nondecreasing, the bundles
\* it obtains from Current() never go back in update order, and the fields it
\* reads from a bundle are all those of the one Update call that published it.
C6_ReadersMonotonicUntorn ==
    \A r \in Readers :
        LET me == readers[r]
        IN  /\ me.prevCount <= me.count
            /\ (me.prevEst # Nil /\ me.est # Nil)
                  => UpdateIndex(me.prevEst) <= UpdateIndex(me.est)
            /\ me.est # Nil =>
                  \A i \in 1..Len(me.view) : me.view[i] = log[UpdateIndex(me.est)].val[i]

\* a reader is in the middle of reading the first bundle when the second has
\* been stored, after it has seen the counter go from 0 to 1
C6_Witness ==
    /\ Len(stored) = 2
    /\ \E r \in Readers : /\ readers[r].pc > 2
                          /\ readers[r].est = log[1].est
                          /\ readers[r].prevCount = 0
                          /\ readers[r].count = 1

\* C7 as stated: Update is one atomic step for readers: a reader that obtained a
\* bundle from Current() and then reads UpdateCount() never gets the count from
\* before that bundle's Update, and the count equals the number of completed
\* Updates.
C7_UpdateOneAtomicStep ==
    /\ \A r \in Readers :
          (readers[r].countAfter /\ readers[r].est # Nil)
              => readers[r].count >= UpdateIndex(readers[r].est)
    /\ current # Nil => ProviderUpdateCount(updates) >= UpdateIndex(current)
    /\ writer.step = 0 => ProviderUpdateCount(updates) = Len(log)

\* C7: Update is two atomic steps, the store of the reference and then the
\* increment: the counter is the number of stores or one less, a reader may
\* get the new bundle and then the count from before its Update, never an older
\* one, and when no Update is in progress the count is the number of Updates.
C7_UpdateStoreThenAdd ==
    /\ Len(stored) - 1 <= ProviderUpdateCount(updates)
    /\ ProviderUpdateCount(updates) <= Len(stored)
    /\ \A r \in Readers :
          (readers[r].countAfter /\ readers[r].est # Nil)
              => readers[r].count >= UpdateIndex(readers[r].est) - 1
    /\ writer.step = 0 => ProviderUpdateCount(updates) = Len(log)

\* a reader got the second bundle and then the count 1
C7_Witness ==
    /\ Len(log) = 2
    /\ \E r \in Readers : /\ readers[r].countAfter
                       /\ readers[r].est = log[2].est
                       /\ readers[r].count = 1

-----------------------------------------------------------------------------
(* Claims on HybridStrategy.Calculate, checked under SpecCalc *)

\* C8: no operation changes a field of a bundle published with Update; a call of
\* Calculate leaves everything its input refers to (the previous bundle, the
\* blocks of the history snapshot, the records of the pool snapshot, the
\* strategy's bounds) as it was, and the bundle it returns is a new object
\* none of whose cells is a cell of the input.
C8_PublishedBundleImmutable ==
    /\ \A i \in 1..Len(log) : EstimateValue(estObjs, heap, log[i].est) = log[i].val
    /\ call.made =>
          /\ InputValue(heap, blockObjs, txObjs, estObjs, strategy, call.input) = call.before
          /\ call.err = "nil" =>
                /\ call.est > call.ests
                /\ \A c \in EstimateCells(estObjs[call.est]) : c > call.cells
                /\ EstimateCells(estObjs[call.est])
                      \cap InputCells(blockObjs, txObjs, estObjs, strategy, call.input) = {}

\* a recalculation smoothed its result with the published bundle, from a
\* history with priority fees and a pool with a pending transaction
C8_Witness ==
    /\ call.made
    /\ call.err = "nil"
    /\ strategy.SmoothingFactor > 0
    /\ Len(log) = 2
    /\ call.input.PreviousEstimate = log[1].est
    /\ call.est = log[2].est
    /\ call.input.PendingTxs # <<>>
    /\ blockObjs[call.input.CurrentBlock].PriorityFees # <<>>
    /\ log[2].val # log[1].val

\* C9: Calculate returns ErrNotReady and no bundle iff the input has no current
\* block; with a current block it returns a bundle and no error, whatever the
\* recent blocks, the pending transactions and the previous bundle.
C9_NotReadyIffNoCurrentBlock ==
    call.made =>
        /\ call.err = "ErrNotReady" <=> call.input.CurrentBlock = Nil
        /\ call.input.CurrentBlock # Nil => (call.err = "nil" /\ call.est # Nil)
        /\ call.input.CurrentBlock = Nil => call.est = Nil

\* Calculate was called with a current block and nothing else, and returned a
\* bundle
C9_Witness ==
    /\ call.made
    /\ call.input.CurrentBlock # Nil
    /\ call.input.RecentBlocks = <<>>
    /\ call.input.PendingTxs = <<>>
    /\ call.input.PreviousEstimate = Nil
    /\ call.err = "nil"
    /\ call.est # Nil

\* C10 as stated: with T = GasLimit / 2 (T > 0), the base fee of the bundle is B
\* when G = T, B + (B * (G - T) / T) / 8 when G > T, and
\* max(0, B - (B * (T - G) / T) / 8) when G < T, all in unbounded integers.
C10_PredictedBaseFee ==
    (call.made /\ call.err = "nil") =>
        LET block == call.before.current[1]
            B     == block.BaseFee
            G     == block.GasUsed
            T     == block.GasLimit \div 2
            got   == heap[estObjs[call.est].BaseFee]
        IN  (B >= 0 /\ T > 0) =>
               got = IF G = T THEN B
                     ELSE IF G > T THEN B + ((B * (G - T)) \div T) \div 8
                     ELSE Max(0, B - ((B * (T - G)) \div T) \div 8)

\* the distance between two naturals
AbsDiff(a, b) == IF a < b THEN b - a ELSE a - b

\* C11: for a current block with base fee B, whatever its gas used and gas
\* limit, the predicted base fee of the bundle differs from B by at most B / 8.
C11_BaseFeeChangeAtMostEighth ==
    (call.made /\ call.err = "nil") =>
        LET B   == call.before.current[1].BaseFee
            got == heap[estObjs[call.est].BaseFee]
        IN  B >= 0 => AbsDiff(got, B) <= B \div 8

-----------------------------------------------------------------------------
(* The arithmetic of the claims, in unbounded naturals *)

RECURSIVE InsertNat(_, _)
InsertNat(s, x) ==
    IF s = <<>> THEN <<x>>
    ELSE IF x < Head(s) THEN <<x>> \o s
    ELSE <<Head(s)>> \o InsertNat(Tail(s), x)

\* the sequence s of naturals in ascending order
RECURSIVE SortNat(_)
SortNat(s) ==
    IF s = <<>> THEN <<>>
    ELSE With(SortNat(Tail(s)), LAMBDA rest : InsertNat(rest, Head(s)))

RECURSIVE Flatten(_)
Flatten(ss) == IF ss = <<>> THEN <<>> ELSE Head(ss) \o Flatten(Tail(ss))

\* X_p = X[floor((|X| - 1) * p)] of a non-empty sorted X (indices from 0)
RefPercentile(X, p100) == X[((Len(X) - 1) * p100) \div 100 + 1]

\* blend(a, b, w) = floor((a * W + b * (100 - W)) / 100), W = round(100 * w)
RefBlend(a, b, w100) == (a * w100 + b * (100 - w100)) \div 100

\* the percentiles of the four tiers, in hundredths
TierPercentiles == {99, 90, 50, 25}

\* C13: with H the sorted priority fees of the recent blocks and M the sorted
\* non-zero effective priority fees of the pending transactions, the fee of
\* the tier of percentile p before clamping is blend(H_p, M_p,
\* historical_weight) when both are non-empty, the one percentile there is when
\* one is empty, and min + (max - min) * round(100 p) / 100 when both are.
C13_TierFeeBeforeClamp ==
    (call.made /\ call.err = "nil") =>
        LET predicted == estObjs[call.est].BaseFee
            hist == SortByValue(heap, CollectHistorical(blockObjs, call.input.RecentBlocks))
            coll == CollectMempool(heap, txObjs, call.input.PendingTxs, predicted)
            memp == SortByValue(coll.h, coll.fees)
            H    == SortNat(Flatten([i \in 1..Len(call.before.recent) |->
                                        call.before.recent[i].PriorityFees]))
            M    == SortNat([i \in 1..Len(coll.fees) |-> coll.h[coll.fees[i]]])
            lo   == heap[strategy.MinPriorityFee]
            hi   == heap[strategy.MaxPriorityFee]
        IN  \A p \in TierPercentiles :
               LET got == TierFee(coll.h, strategy, hist, memp, p)
               IN  got.h[got.p] =
                      IF H # <<>> /\ M # <<>>
                      THEN RefBlend(RefPercentile(H, p), RefPercentile(M, p),
                                    strategy.HistoricalWeight)
                      ELSE IF M # <<>> THEN RefPercentile(M, p)
                      ELSE IF H # <<>> THEN RefPercentile(H, p)
                      ELSE lo + ((hi - lo) * p) \div 100

\* the four tiers of the value of a bundle, each <<max_priority_fee, max_fee,
\* confidence>>, and its base fee
TiersOf(val) == {val[4], val[5], val[6], val[7]}

BaseFeeOf(val) == val[3]

\* C14: with bounds min_priority_fee <= max_priority_fee, in every bundle
\* published by a sequence of recalculations that starts from the empty slot
\* the max_priority_fee of each tier is within the bounds.
C14_PriorityFeeWithinBounds ==
    heap[strategy.MinPriorityFee] <= heap[strategy.MaxPriorityFee] =>
        \A i \in 1..Len(log) : \A t \in TiersOf(log[i].val) :
            /\ heap[strategy.MinPriorityFee] <= t[1]
            /\ t[1] <= heap[strategy.MaxPriorityFee]

\* the last call of Calculate returned a bundle, and did not smooth it
Unsmoothed ==
    /\ call.made
    /\ call.err = "nil"
    /\ (call.input.PreviousEstimate = Nil \/ strategy.SmoothingFactor = 0)

\* C15: in the unsmoothed path every tier of the bundle returned by Calculate
\* has max_fee = predicted_base_fee * 2 + max_priority_fee exactly.
C15_MaxFeeUnsmoothed ==
    Unsmoothed =>
        LET val == EstimateValue(estObjs, heap, call.est)
        IN  \A t \in TiersOf(val) : t[2] = BaseFeeOf(val) * 2 + t[1]

\* C16: in every published bundle, smoothed or not, every tier has
\* max_fee >= base_fee * 2 + max_priority_fee, with the base fee of that bundle.
C16_MaxFeeCoversBaseFee ==
    \A i \in 1..Len(log) : \A t \in TiersOf(log[i].val) :
        t[2] >= BaseFeeOf(log[i].val) * 2 + t[1]

\* C17: in a bundle computed without smoothing the max_priority_fee of the
\* tiers is ordered: urgent >= fast >= standard >= slow.
C17_TiersOrderedUnsmoothed ==
    Unsmoothed =>
        LET val == EstimateValue(estObjs, heap, call.est)
        IN  /\ val[4][1] >= val[5][1]
            /\ val[5][1] >= val[6][1]
            /\ val[6][1] >= val[7][1]

\* the value of the bundle the last call's input gives without a previous one
FreshValue ==
    With(Calculate(heap, blockObjs, txObjs, estObjs, strategy,
                   [call.input EXCEPT !.PreviousEstimate = Nil]),
         LAMBDA r : EstimateValue(r.eobjs, r.h, r.est))

\* C18: with a previous bundle and a smoothing factor f > 0, the
\* max_priority_fee and the max_fee of each tier of the bundle returned are
\* blend(previous, fresh, f), and its base fee, chain id, block number and
\* confidences are those of the fresh bundle; with no previous bundle or
\* f = 0 the bundle returned is the fresh one.
C18_SmoothedBundle ==
    (call.made /\ call.err = "nil") =>
        LET got   == EstimateValue(estObjs, heap, call.est)
            fresh == FreshValue
            f     == strategy.SmoothingFactor
        IN  IF call.input.PreviousEstimate # Nil /\ f > 0
            THEN LET prev == call.before.previous[1]
                 IN  /\ \A i \in 1..3 : got[i] = fresh[i]
                     /\ \A i \in 4..NFields :
                           /\ got[i][1] = RefBlend(prev[i][1], fresh[i][1], f)
                           /\ got[i][2] = RefBlend(prev[i][2], fresh[i][2], f)
                           /\ got[i][3] = fresh[i][3]
            ELSE got = fresh

\* the steps of a recalculation whose result in unbounded naturals does not
\* fit the word: the prediction of the base fee, ...
PredictOverflows(block) ==
    LET B == block.BaseFee
        G == block.GasUsed
        T == block.GasLimit \div 2
    IN  /\ B >= 0
        /\ T > 0
        /\ \/ B * AbsDiff(G, T) >= Modulus
           \/ G > T /\ B + ((B * (G - T)) \div T) \div 8 >= Modulus

\* ... a blend, ...
BlendOverflows(a, b, w100) == a * w100 + b * (100 - w100) >= Modulus

\* ... the blend of the two percentiles of a tier, ...
TierFeeOverflows ==
    LET predicted == estObjs[call.est].BaseFee
        coll == CollectMempool(heap, txObjs, call.input.PendingTxs, predicted)
        H    == SortNat(Flatten([i \in 1..Len(call.before.recent) |->
                                    call.before.recent[i].PriorityFees]))
        M    == SortNat([i \in 1..Len(coll.fees) |-> coll.h[coll.fees[i]]])
    IN  /\ H # <<>>
        /\ M # <<>>
        /\ \E p \in TierPercentiles :
              BlendOverflows(RefPercentile(H, p), RefPercentile(M, p),
                             strategy.HistoricalWeight)

\* ... max_fee = base_fee * 2 + max_priority_fee of a tier of the fresh bundle, ...
MaxFeeOverflows ==
    \E t \in TiersOf(FreshValue) : BaseFeeOf(FreshValue) * 2 + t[1] >= Modulus

\* ... and the blend of a fee of the previous bundle with the fresh one
SmoothOverflows ==
    /\ call.input.PreviousEstimate # Nil
    /\ strategy.SmoothingFactor > 0
    /\ \E i \in 4..NFields : \E k \in {1, 2} :
          BlendOverflows(call.before.previous[1][i][k], FreshValue[i][k],
                         strategy.SmoothingFactor)

\* C20: an overflow in a recalculation is reported as an error and the
\* recalculation is aborted with the previous bundle retained: a call of
\* Calculate that returned a bundle, and so every bundle published, had no
\* step that overflowed.
C20_OverflowReported ==
    (call.made /\ call.err = "nil") =>
        /\ ~PredictOverflows(call.before.current[1])
        /\ ~TierFeeOverflows
        /\ ~MaxFeeOverflows
        /\ ~SmoothOverflows

\* the max_priority_fee of the tiers of a bundle is ordered
TiersOrdered(val) ==
    /\ val[4][1] >= val[5][1]
    /\ val[5][1] >= val[6][1]
    /\ val[6][1] >= val[7][1]

\* the last call of Calculate is the recalculation that published the last
\* bundle, and no step of it overflowed
PublishedWithoutOverflow ==
    /\ log # <<>>
    /\ call.made
    /\ call.err = "nil"
    /\ log[Len(log)].est = call.est
    /\ ~PredictOverflows(call.before.current[1])
    /\ ~TierFeeOverflows
    /\ ~MaxFeeOverflows
    /\ ~SmoothOverflows

\* C38: in every bundle published by a sequence of recalculations that starts
\* from the empty slot, smoothed bundles included, the tiers are ordered
\* urgent >= fast >= standard >= slow in max_priority_fee when no arithmetic
\* overflows: a bundle published without overflow after an ordered one (or
\* after none) is ordered.
C38_TiersOrderedSmoothed ==
    (PublishedWithoutOverflow
       /\ (Len(log) >= 2 => TiersOrdered(log[Len(log) - 1].val)))
      => TiersOrdered(log[Len(log)].val)

\* a second bundle was published, smoothed with the first one, and its urgent
\* and slow fees differ from each other and from those of the first
C38_Witness ==
    /\ PublishedWithoutOverflow
    /\ Len(log) = 2
    /\ call.input.PreviousEstimate # Nil
    /\ strategy.SmoothingFactor > 0
    /\ log[2].val[4][1] > log[2].val[7][1]
    /\ log[2].val[4][1] # log[1].val[4][1]
    /\ log[2].val[4][1] # FreshValue[4][1]

-----------------------------------------------------------------------------
(* Claims on the fee functions, checked under SpecFn *)

\* C12: against a present base fee B, eth.Transaction.EffectivePriorityFee
\* returns, for an EIP-1559 transaction with both fee fields, 0 when
\* max_fee < B and min(max_priority_fee, max_fee - B) otherwise; for a legacy
\* transaction with a gas price, 0 when gas_price < B and gas_price - B otherwise.
C12_TransactionEffectivePriorityFee ==
    (call.made /\ call.fn = "EffectivePriorityFee" /\ call.baseFee # Nil) =>
        LET t   == call.tx
            B   == heap[call.baseFee]
            got == heap[call.result]
        IN  /\ (t.Type = 2 /\ t.MaxFeePerGas # Nil /\ t.MaxPriorityFeePerGas # Nil) =>
                  got = IF heap[t.MaxFeePerGas] < B THEN 0
                        ELSE Min(heap[t.MaxPriorityFeePerGas], heap[t.MaxFeePerGas] - B)
            /\ (t.Type = 0 /\ t.GasPrice # Nil) =>
                  got = IF heap[t.GasPrice] < B THEN 0 ELSE heap[t.GasPrice] - B

\* C19: blend(a, b, w) = floor((a * W + b * (100 - W)) / 100), where W is
\* round(100 * w).
C19_BlendWeightedAverage ==
    (call.made /\ call.fn = "blend") =>
        heap[call.result] = RefBlend(heap[call.a], heap[call.b], call.weightA)


-----------------------------------------------------------------------------
(* Claims on Estimator.Run, checked under SpecRun *)

\* the calls of the given operations made to the node by Run
CallsOf(ops) == { k \in 1..Len(trace.calls) : trace.calls[k].op \in ops }

\* the chain-ID query was made and failed
ChainIDFailed == \E k \in CallsOf({"ChainID"}) : ~trace.calls[k].ok

\* C21: if the chain-ID query fails at startup, Run returns a non-nil error
\* without fetching any block, without subscribing to any stream and without
\* publishing any bundle (history, pool and slot are as constructed), and the
\* running flag is cleared.
C21_ChainIDFailureFatal ==
    ChainIDFailed =>
        /\ run.pc = "returned"
        /\ run.err # "nil"
        /\ ~run.running
        /\ CallsOf({"LatestBlock", "BlockByNumber"}) = {}
        /\ trace.handled = <<>>
        /\ trace.batches = <<>>
        /\ trace.subscribed = <<>>
        /\ ~chans.blockCh.made
        /\ ~chans.txHashCh.made
        /\ trace.recalcs = <<>>
        /\ log = <<>>
        /\ history = NewHistory(HistorySize)
        /\ localPool = NewLocalTxPool(2)
        /\ current = Nil
        /\ updates = 0

\* the chain-ID query has failed and Run has returned its error
C21_Witness ==
    /\ ChainIDFailed
    /\ run.pc = "returned"
    /\ run.err = "getting chain ID"

\* the channel Run was given for the stream is closed
StreamClosed(s) == IF s = "heads" THEN chans.blockCh.closed ELSE chans.txHashCh.closed

\* the error names the stream
NamesStream(err, s) ==
    err = IF s = "heads" THEN "block subscription closed" ELSE "tx subscription closed"

\* C22: in steady state with the context not cancelled, if either subscription
\* stream is closed, Run terminates and returns a non-nil error that names the
\* closed stream (unless the context is cancelled in the meantime).
C22_StreamCloseFatal ==
    \A s \in Streams :
        (run.pc = "loop" /\ rootCtx = "live" /\ StreamClosed(s))
            ~> (rootCtx = "cancelled" \/ (run.pc = "returned" /\ NamesStream(run.err, s)))

\* the context was cancelled while Run was in its loop, and no subscription
\* has ended on the subscriber's side
CancelledInLoop == trace.cancelAt = "loop" /\ trace.ended = {}

\* C23: when the context is cancelled while Run is in steady state, Run
\* eventually returns, and it returns nil, however the cancellation interleaves
\* with the closing of blockCh and txHashCh by the forwarding tasks.
C23_CancelReturnsNil ==
    /\ (trace.cancelAt = "loop") ~> (run.pc = "returned")
    /\ []((CancelledInLoop /\ run.pc = "returned") => run.err = "nil")

\* bootstrap is over, it has fetched blocks by number and every fetch failed
BootstrapLoadedNothing ==
    /\ run.pc \notin {"start", "chainID", "bootstrap", "walk"}
    /\ CallsOf({"BlockByNumber"}) # {}
    /\ \A k \in CallsOf({"BlockByNumber"}) : ~trace.calls[k].ok

\* C24: if every block fetch of bootstrap fails, so that no block is loaded
\* into the history, Run terminates with a non-nil error: it does not subscribe
\* to the streams and does not enter its loop.
C24_EmptyBootstrapFatal ==
    /\ BootstrapLoadedNothing ~> (run.pc = "returned" /\ run.err # "nil")
    /\ [](BootstrapLoadedNothing =>
             /\ trace.subscribed = <<>>
             /\ run.pc # "loop"
             /\ (run.pc = "returned" => run.err # "nil"))

\* a task that was never started, or that has returned
Over(pc) == pc \in {"none", "done"}

\* no helper task is left, and every output channel that was made is closed
HelpersOver ==
    /\ Over(proc.pc)
    /\ \A s \in Streams : Over(fwd[s].pc)
    /\ handlers = <<>>
    /\ chans.blockCh.made => chans.blockCh.closed
    /\ chans.txHashCh.made => chans.txHashCh.closed

WalkFetches == SelectSeq(trace.calls, LAMBDA c : c.op = "BlockByNumber")

\* the fetches of the walk that succeeded
WalkLoaded == SelectSeq(WalkFetches, LAMBDA c : c.ok)

\* the fetches of handleNewBlock that succeeded
HandlerLoaded == SelectSeq(trace.handled, LAMBDA e : e.ok)

WalkOver == run.pc \notin {"start", "chainID", "bootstrap", "walk"}

\* C26: in bootstrap a failed block fetch never aborts the walk: the walk asks
\* for latest, latest - 1, ... whatever the earlier fetches gave, at most
\* history_size blocks are fetched, every block fetched with success is pushed
\* exactly once (in the order of the walk) and a failed one is not pushed, and
\* bootstrap returns success whenever at least one block was loaded.
C26_BootstrapWalk ==
    /\ Len(WalkFetches) <= HistorySize
    /\ \A k \in 1..Len(WalkFetches) : WalkFetches[k].number = run.latest - (k - 1)
    /\ WalkOver /\ WalkFetches # <<>> => Len(WalkFetches) = Min(HistorySize, run.latest)
    /\ Len(pushed) = Len(WalkLoaded) + Len(HandlerLoaded)
    /\ \A k \in 1..Len(WalkLoaded) : blockObjs[pushed[k]].Number = WalkLoaded[k].number
    /\ run.pc = "walk" => HistoryLen(history) = Len(WalkLoaded)
    /\ WalkOver /\ WalkLoaded # <<>> => run.err # "bootstrapping"

\* the walk is over: a fetch failed, a later one succeeded and was pushed
C26_Witness ==
    /\ WalkOver
    /\ Len(WalkFetches) = HistorySize
    /\ ~WalkFetches[1].ok
    /\ WalkFetches[2].ok
    /\ Len(pushed) = 1
    /\ run.pc = "subHeads"

\* C27: if bootstrap loads at least one block, a bundle has been published
\* (Ready() is true and UpdateCount() >= 1) when bootstrap is over, which is
\* before Run subscribes to the heads or to the pending hashes and before the
\* ticker is armed.
C27_PublishedBeforeSubscribing ==
    WalkOver /\ WalkLoaded # <<>>
       => ProviderReady(current, updates) /\ ProviderUpdateCount(updates) >= 1

\* bootstrap has loaded a block and returned, Run has not subscribed yet
C27_Witness ==
    /\ run.pc = "subHeads"
    /\ WalkLoaded # <<>>
    /\ trace.subscribed = <<>>
    /\ ~chans.blockCh.made /\ ~chans.txHashCh.made
    /\ ProviderUpdateCount(updates) = 1

\* the outcome of the recalculation made by the step, if the step made one
Recalculated == Len(trace'.recalcs) = Len(trace.recalcs) + 1
Outcome == trace'.recalcs[Len(trace'.recalcs)].err

\* the number of the recalculations so far that succeeded
Succeeded == Len(SelectSeq(trace.recalcs, LAMBDA e : e.err = "nil"))

\* C28: a recalculation that fails (empty snapshot of the history, or an error
\* of the strategy) makes no Update: the bundle of the slot and the update
\* counter stay exactly as they were, and Run keeps running.  A recalculation
\* that succeeds makes exactly one Update.
C28_FailedRecalculationKeepsBundle ==
    [][Recalculated =>
         IF Outcome # "nil"
         THEN /\ current' = current
              /\ updates' = updates
              /\ log' = log
              /\ stored' = stored
              /\ estObjs' = estObjs
              /\ run'.pc # "returned"
              /\ run'.err = "nil"
         ELSE /\ updates' = updates + 1
              /\ Len(log') = Len(log) + 1
              /\ Len(stored') = Len(stored) + 1
              /\ current' = stored'[Len(stored')]]_vars

\* the ticker recalculated on an empty history and failed, Run is still in its
\* loop; a block arrived later, and that recalculation published
C28_Witness ==
    /\ run.pc = "loop"
    /\ \E j \in 1..Len(trace.recalcs) :
          trace.recalcs[j].by = "ticker" /\ trace.recalcs[j].err # "nil"
    /\ trace.recalcs[Len(trace.recalcs)] = [by |-> "handleNewBlock", err |-> "nil"]
    /\ Succeeded = 1
    /\ ProviderUpdateCount(updates) = 1

\* the step is the end of a handleNewBlock task
Handled == Len(trace'.handled) = Len(trace.handled) + 1
LastHandled == trace'.handled[Len(trace'.handled)]

\* C29: for every header delivered on the stream of the heads the full block
\* is fetched again by the number of the header (one handler per header
\* received); if the fetch succeeds the converted block is pushed onto the
\* history exactly once and a recalculation follows; if the fetch fails
\* nothing is pushed, no recalculation is made and the loop of Run goes on.
C29_HeaderHandledOnce ==
    [][/\ Len(trace'.received) = Len(trace'.handled) + Len(handlers')
       /\ SeqToSet(trace'.received)
             = { trace'.handled[k].number : k \in 1..Len(trace'.handled) }
                  \cup SeqToSet(handlers')
       /\ Handled =>
             /\ \E k \in 1..Len(handlers) : handlers[k] = LastHandled.number
             /\ Len(handlers') = Len(handlers) - 1
             /\ run' = run
             /\ IF LastHandled.ok
                THEN /\ Len(pushed') = Len(pushed) + 1
                     /\ blockObjs'[pushed'[Len(pushed')]].Number = LastHandled.number
                     /\ history' = HistoryPush(history, pushed'[Len(pushed')])
                     /\ Recalculated
                     /\ trace'.recalcs[Len(trace'.recalcs)].by = "handleNewBlock"
                ELSE /\ pushed' = pushed
                     /\ history' = history
                     /\ trace'.recalcs = trace.recalcs
                     /\ UNCHANGED <<current, updates, log, stored>>]_vars

\* a header was received in the loop, its block fetched and pushed, and the
\* recalculation published; another state has a failed fetch
C29_Witness ==
    /\ trace.received # <<>>
    /\ handlers = <<>>
    /\ trace.handled = <<[number |-> trace.received[1], ok |-> TRUE]>>
    /\ HistoryLen(history) = Min(HistorySize, Len(WalkLoaded) + 1)
    /\ trace.recalcs[Len(trace.recalcs)] = [by |-> "handleNewBlock", err |-> "nil"]

\* the step issues a batched fetch; the batch it passes
Fetched == Len(trace'.batches) = Len(trace.batches) + 1
LastBatch == trace'.batches[Len(trace'.batches)]

\* the step receives a hash from txHashCh
ReceivedHash == Len(trace'.hashes) = Len(trace.hashes) + 1

\* C30: in processPendingTxs the batch never holds more than batchSize hashes;
\* a batched fetch is issued exactly when a received hash fills the batch or
\* when the timer fires on a non-empty batch; the batch is empty after each
\* fetch; every hash received is passed to a batched fetch at most once (the
\* hashes fetched and the hashes waiting are the hashes received, in order).
C30_BatchedFetch ==
    [][/\ Len(proc'.batch) <= BatchSize
       /\ \A k \in 1..Len(trace'.batches) :
             Len(trace'.batches[k]) \in 1..BatchSize
       /\ Flatten(trace'.batches) \o proc'.batch = trace'.hashes
       /\ Fetched =>
             /\ proc'.batch = <<>>
             /\ IF ReceivedHash
                THEN /\ Len(LastBatch) = BatchSize
                     /\ LastBatch = Append(proc.batch,
                                           trace'.hashes[Len(trace'.hashes)])
                ELSE /\ LastBatch = proc.batch
                     /\ proc.batch # <<>>
                     /\ trace'.hashes = trace.hashes
       /\ ReceivedHash /\ Len(proc.batch) + 1 >= BatchSize => Fetched]_vars

\* the timer fetched a batch of one hash; a later hash was received and filled
\* no batch yet
C30_TimerWitness ==
    /\ Len(trace.batches) = 1
    /\ Len(trace.batches[1]) = 1
    /\ Len(proc.batch) = 1

\* a received hash filled the batch: it was fetched and the batch is empty
C30_Witness ==
    /\ trace.batches # <<>>
    /\ Len(trace.batches[1]) = BatchSize
    /\ trace.batches[1] = trace.hashes
    /\ proc.batch = <<>>

\* the transactions the node returned for the batch of the step, nil ones left out
LastResult == trace'.results[Len(trace'.results)]
Returned == IF LastResult = "first nil" THEN Tail(LastBatch) ELSE LastBatch

\* the last n elements of a sequence
LastOf(seq, n) == SubSeq(seq, Len(seq) - Min(n, Len(seq)) + 1, Len(seq))

\* C31: when the batched fetch of the transactions fails the whole batch is
\* dropped and the pool is left unchanged (no record added, none evicted); when
\* it succeeds every transaction returned that is not nil is added to the pool
\* exactly once, in the order returned.
C31_FetchFailureDropsBatch ==
    [][Fetched =>
         IF LastResult = "error"
         THEN /\ localPool' = localPool
              /\ added' = added
              /\ txObjs' = txObjs
         ELSE /\ Len(added') = Len(added) + Len(Returned)
              /\ SubSeq(added', 1, Len(added)) = added
              /\ \A k \in 1..Len(Returned) :
                    /\ added'[Len(added) + k].Type = NodeTx(Returned[k]).type
                    /\ txObjs'[Len(txObjs) + k] = TxDataOf(added'[Len(added) + k])
              /\ Len(txObjs') = Len(txObjs) + Len(Returned)
              /\ LocalTxPoolSnapshot(localPool')
                   = LastOf(LocalTxPoolSnapshot(localPool)
                              \o [k \in 1..Len(Returned) |-> Len(txObjs) + k],
                            localPool.size)]_vars

\* one fetch failed and left the pool empty, a later one added its transaction
C31_Witness ==
    /\ Len(trace.results) = 2
    /\ trace.results[1] = "error"
    /\ trace.results[2] = "all"
    /\ Len(added) = 1
    /\ Len(LocalTxPoolSnapshot(localPool)) = 1

\* a fetch returned nil for its first hash and a transaction for its second
C31_NilSkipped ==
    /\ trace.results = <<"first nil">>
    /\ Len(trace.batches[1]) = BatchSize
    /\ Len(added) = BatchSize - 1

\* the step is the arrival of a hash at the forwarding task of the pending hashes
HashArrives == chans'.rawCh["pending"].sent = chans.rawCh["pending"].sent + 1

\* the hashes that went through txHashCh or wait in it, in the order of the channel
Queued == trace.hashes \o chans.txHashCh.buf

C34_AddNeverPanics ==
    /\ run.pc # "panic"
    /\ Len(LocalTxPoolSnapshot(localPool)) <= localPool.size

\* the value TxData.EffectivePriorityFee gives for the record that Add derives
\* from the transaction of the call, against the base fee of the call
PoolRecordFee ==
    With(TxDataEffectivePriorityFee(heap, TxDataOf(call.tx), call.baseFee),
         LAMBDA r : r.h[r.p])

\* C39: the two implementations of the effective priority fee agree: for every
\* transaction and every base fee (absent, zero or positive),
\* Transaction.EffectivePriorityFee returns the value that
\* TxData.EffectivePriorityFee returns for the record of the pool that
\* LocalTxPool.Add derives from the transaction.
C39_PriorityFeesAgree ==
    (call.made /\ call.fn = "EffectivePriorityFee") => heap[call.result] = PoolRecordFee

\* C40: Close always terminates: under every interleaving with the tasks that
\* write frames (unsubscribe of a forwarding task that stops, writePong of the
\* read loop) no state is reached where Close holds mu and waits for writeMu
\* while a writer holds writeMu and waits for mu.
C40_CloseNeverDeadlocks ==
    ~ /\ ws.mu = "Close"
      /\ ws.tasks["Close"] = "writeMu.Lock"
      /\ \E t \in Writers : ws.writeMu = t /\ ws.tasks[t] = "mu.Lock"

\* bootstrap has just returned and every fetch of its walk succeeded
BootstrapAllLoaded ==
    /\ run.pc = "subHeads"
    /\ WalkFetches # <<>>
    /\ \A k \in 1..Len(WalkFetches) : WalkFetches[k].ok

\* the base fee predicted from the block b
PredictedFrom(b) == With(PredictBaseFee(heap, blockObjs[b]), LAMBDA r : r.h[r.p])

\* C35: after a bootstrap in which all fetches succeed History.Latest() is the
\* latest block of the chain (the highest number fetched), so that the bundle
\* published by the initial recalculation has the number of the latest block
\* and a base fee predicted from that block.
C35_BootstrapLatestIsHead ==
    BootstrapAllLoaded =>
        /\ blockObjs[HistoryLatest(history)].Number = run.latest
        /\ current # Nil
        /\ estObjs[current].BlockNumber = run.latest
        /\ heap[estObjs[current].BaseFee] = PredictedFrom(pushed[1])

\* the numbers of the blocks of the snapshot of the history, and of all the
\* blocks pushed so far
SnapshotNumbers ==
    [i \in 1..HistoryLen(history) |-> blockObjs[HistorySnapshot(history)[i]].Number]
PushedNumbers == { blockObjs[pushed[k]].Number : k \in 1..Len(pushed) }

\* C36: after bootstrap and any number of headers arriving with increasing
\* numbers, History.Snapshot() is ordered by strictly decreasing block number,
\* so that a push on a full history evicts the lowest-numbered block and the
\* history holds the highest-numbered blocks seen.
C36_SnapshotDecreasingNumbers ==
    WalkOver =>
        /\ \A i, j \in 1..Len(SnapshotNumbers) :
              i < j => SnapshotNumbers[i] > SnapshotNumbers[j]
        /\ \A n \in PushedNumbers :
              n \in SeqToSet(SnapshotNumbers)
                 \/ \A i \in 1..Len(SnapshotNumbers) : n < SnapshotNumbers[i]


\* the estimate Update published last, Nil before the first one
LastPublished == IF log = <<>> THEN Nil ELSE log[Len(log)].est

\* C32: the estimate slot has a single producer: at no moment is more than one
\* task inside recalculate, so Update is never entered by two tasks at once,
\* and the previous estimate a recalculation built its input with is still the
\* one published last when it publishes its own.
C32_SingleProducer ==
    /\ Len(recalc) <= 1
    /\ \A k \in 1..Len(recalc) :
          recalc[k].pc = "Calculate" =>
             recalc[k].input[1].PreviousEstimate = LastPublished

\* C37: in the steady state the block numbers of the published estimates never
\* decrease from one publication to the next.
C37_PublishedNumbersNondecreasing ==
    \A i \in 1..Len(log) : \A j \in 1..Len(log) :
       i < j => log[i].val[2] <= log[j].val[2]

=============================================================================
